---- MODULE Spec2Model ----
(***************************************************************************)
(* Verification model of the marker pipeline:                              *)
(*   tools/complete_markers.py   (recovering parser, schema normalizer,    *)
(*                                pass one of the pipeline)                *)
(*   tools/qualify_marker_set.py (structural validator, qualifier)         *)
(*                                                                         *)
(* Python values are tagged records [t, v]:                                *)
(*   str  -> v is the sequence of its characters,                          *)
(*   list -> v is the sequence of its items,                               *)
(*   dict -> v is a function from keys (character sequences) to values,    *)
(*   int  -> v is the number, None -> v is <<>>.                           *)
(* Messages and tags that the program only stores or prints are TLA+       *)
(* strings.                                                                *)
(***************************************************************************)
EXTENDS Integers, Sequences, FiniteSets, TLC

\* ------------------------------------------------------------------ bounds
\* Longest document, in lines, that the parser specification enumerates.
MaxLines == 3

\* ------------------------------------------------------------ Python values
PyNone == [t |-> "none", v |-> <<>>]

PyStr(s) == [t |-> "str", v |-> s]

PyList(l) == [t |-> "list", v |-> l]

PyDict(d) == [t |-> "dict", v |-> d]

PyInt(n) == [t |-> "int", v |-> n]

\* The empty mapping {} (a function with an empty domain).
EmptyMap == <<>>

\* Python truthiness, as used by 'if data:' and 'if current_key'.
Truthy(x) ==
    CASE x.t = "none" -> FALSE
      [] x.t = "str"  -> Len(x.v) > 0
      [] x.t = "list" -> Len(x.v) > 0
      [] x.t = "dict" -> DOMAIN x.v # {}
      [] x.t = "int"  -> x.v # 0
      [] OTHER        -> TRUE

\* d with d[k] = val (dict item assignment).
MapPut(d, k, val) == [q \in (DOMAIN d) \cup {k} |-> IF q = k THEN val ELSE d[q]]

\* ------------------------------------------------------------ str methods
WhiteSpace == {" ", "\t", "\n", "\r"}

Letters ==
    {"a","b","c","d","e","f","g","h","i","j","k","l","m",
     "n","o","p","q","r","s","t","u","v","w","x","y","z",
     "A","B","C","D","E","F","G","H","I","J","K","L","M",
     "N","O","P","Q","R","S","T","U","V","W","X","Y","Z"}

Digits == {"0","1","2","3","4","5","6","7","8","9"}

RECURSIVE LStrip(_)
LStrip(s) == IF s # <<>> /\ Head(s) \in WhiteSpace THEN LStrip(Tail(s)) ELSE s

RECURSIVE RStrip(_)
RStrip(s) ==
    IF s # <<>> /\ s[Len(s)] \in WhiteSpace THEN RStrip(SubSeq(s, 1, Len(s) - 1)) ELSE s

\* str.strip()
Strip(s) == RStrip(LStrip(s))

\* str.startswith(p)
StartsWith(s, p) == Len(s) >= Len(p) /\ SubSeq(s, 1, Len(p)) = p

\* p in s (substring test)
Contains(s, p) ==
    \E i \in 1..(Len(s) - Len(p) + 1) : SubSeq(s, i, i + Len(p) - 1) = p

\* str.replace(old, new): non-overlapping occurrences, left to right.
RECURSIVE Replace(_, _, _)
Replace(s, old, new) ==
    IF s = <<>> THEN <<>>
    ELSE IF StartsWith(s, old)
         THEN new \o Replace(SubSeq(s, Len(old) + 1, Len(s)), old, new)
         ELSE <<Head(s)>> \o Replace(Tail(s), old, new)

\* Index of the first c in s at or after i, Len(s)+1 when there is none.
RECURSIVE Find(_, _, _)
Find(s, c, i) == IF i > Len(s) \/ s[i] = c THEN i ELSE Find(s, c, i + 1)

\* str.split(c) for a one-character separator.
RECURSIVE Split(_, _)
Split(s, c) ==
    LET i == Find(s, c, 1)
    IN  IF i > Len(s) THEN <<s>>
        ELSE <<SubSeq(s, 1, i - 1)>> \o Split(SubSeq(s, i + 1, Len(s)), c)

\* sep.join(parts)
RECURSIVE Join(_, _)
Join(parts, sep) ==
    IF parts = <<>> THEN <<>>
    ELSE IF Len(parts) = 1 THEN parts[1]
         ELSE parts[1] \o sep \o Join(Tail(parts), sep)

\* ---------------------------------------------------- the raw documents
\* The lines the bounded documents are made of.
L_blank   == <<>>
L_tab     == <<"\t">>
L_comment == <<"#", " ", "c">>
L_sep     == <<"-", "-", "-">>
L_kv      == <<"a", ":", " ", "x">>
L_k       == <<"b", ":">>
L_item    == <<"-", " ", "x">>
L_word    == <<"w">>
L_zero    == <<"0">>
L_badk    == <<"@", "b", ":">>
L_kvv     == <<"a", ":", " ", "x", ":", " ", "y">>

Lines ==
    {L_blank, L_tab, L_comment, L_sep, L_kv, L_k, L_item, L_word, L_zero, L_badk,
     L_kvv}

\* The document bodies: 1..MaxLines lines joined by newlines (one blank line
\* is the empty body).
Bodies ==
    {Join(ls, <<"\n">>) : ls \in UNION {[1..n -> Lines] : n \in 1..MaxLines}}

\* ------------------------------------------------------- yaml.safe_load
\* Model of the library call yaml.safe_load for block-style documents whose
\* significant lines all start at column 0 (every body of Bodies, before and
\* after repair_yaml_content): top-level 'key: value' / 'key:' lines, '- item'
\* lines, plain words, comments, blank lines and '---'.
YamlError == [t |-> "error", v |-> <<>>]

RECURSIVE DropSpaces(_)
DropSpaces(s) == IF s # <<>> /\ Head(s) = " " THEN DropSpaces(Tail(s)) ELSE s

RECURSIVE DropTrailingSpaces(_)
DropTrailingSpaces(s) ==
    IF s # <<>> /\ s[Len(s)] = " "
    THEN DropTrailingSpaces(SubSeq(s, 1, Len(s) - 1)) ELSE s

YBody(l) == DropTrailingSpaces(DropSpaces(l))

\* Index of the first value indicator (a colon followed by a space or the end
\* of the line) at or after i, Len(b)+1 when there is none.
RECURSIVE ValueIndicator(_, _)
ValueIndicator(b, i) ==
    IF i > Len(b) THEN i
    ELSE IF b[i] = ":" /\ (i = Len(b) \/ b[i + 1] = " ") THEN i
         ELSE ValueIndicator(b, i + 1)

YKey(b) == SubSeq(b, 1, ValueIndicator(b, 1) - 1)

YValue(b) == YBody(SubSeq(b, ValueIndicator(b, 1) + 1, Len(b)))

\* What the scanner makes of one line.
YKind(l) ==
    LET b == YBody(l)
    IN  IF b = <<>> THEN "blank"
        ELSE IF b[1] = "#" THEN "comment"
        ELSE IF b[1] \in {"\t", "@"} THEN "bad"   \* cannot start any token
        ELSE IF l = <<"-", "-", "-">> THEN "docstart"
        ELSE IF b[1] = "-" /\ (Len(b) = 1 \/ b[2] = " ") THEN "item"
        ELSE IF ValueIndicator(b, 1) <= Len(b)
             THEN IF ValueIndicator(YValue(b), 1) <= Len(YValue(b))
                  THEN "bad"               \* mapping values are not allowed here
                  ELSE "key"
             ELSE "word"

\* Implicit typing of a plain scalar: null, a decimal integer without a
\* leading zero, otherwise a string.
RECURSIVE IntOf(_, _)
IntOf(s, acc) ==
    IF s = <<>> THEN acc
    ELSE IntOf(Tail(s),
               10 * acc + (CHOOSE n \in 0..9 :
                   <<"0","1","2","3","4","5","6","7","8","9">>[n + 1] = Head(s)))

ResolveScalar(s) ==
    IF s = <<>> \/ s = <<"~">> \/ s = <<"n","u","l","l">> THEN PyNone
    ELSE IF (\A i \in 1..Len(s) : s[i] \in Digits) /\ (Len(s) = 1 \/ s[1] # "0")
         THEN PyInt(IntOf(s, 0))
         ELSE PyStr(s)

YamlStart ==
    [mode |-> "empty", started |-> FALSE, map |-> EmptyMap, open |-> FALSE,
     last |-> <<>>, seq |-> <<>>, text |-> <<>>, closed |-> FALSE, blanks |-> 0]

\* Line folding of a multi-line plain scalar: one line break is a space, each
\* further blank line a newline.
Fold(text, blanks, chunk) ==
    text \o (IF blanks = 0 THEN <<" ">> ELSE [i \in 1..blanks |-> "\n"]) \o chunk

YamlStep(st, l) ==
    LET k == YKind(l)
        b == YBody(l)
        bad == [st EXCEPT !.mode = "error"]
    IN  CASE st.mode = "error" -> st
          [] k = "blank" ->
                IF st.mode = "scalar" THEN [st EXCEPT !.blanks = @ + 1] ELSE st
          [] k = "comment" ->
                IF st.mode = "scalar" THEN [st EXCEPT !.closed = TRUE] ELSE st
          [] k = "bad" -> bad
          [] k = "docstart" ->
                \* a second document: safe_load expects a single one
                IF st.mode = "empty" /\ ~st.started
                THEN [st EXCEPT !.started = TRUE] ELSE bad
          [] k = "key" ->
                IF st.mode \in {"empty", "map"}
                THEN [st EXCEPT !.mode = "map",
                                !.map = MapPut(st.map, YKey(b), ResolveScalar(YValue(b))),
                                !.open = (YValue(b) = <<>>),
                                !.last = YKey(b)]
                ELSE bad
          [] k = "item" ->
                LET it == ResolveScalar(YBody(Tail(b)))
                IN  CASE st.mode \in {"empty", "seq"} ->
                            [st EXCEPT !.mode = "seq", !.seq = Append(st.seq, it)]
                      [] st.mode = "map" /\ st.open ->
                            \* a sequence at the indentation of its key
                            [st EXCEPT !.map = MapPut(st.map, st.last,
                                IF st.map[st.last].t = "list"
                                THEN PyList(Append(st.map[st.last].v, it))
                                ELSE PyList(<<it>>))]
                      [] st.mode = "scalar" /\ ~st.closed ->
                            [st EXCEPT !.text = Fold(st.text, st.blanks, b), !.blanks = 0]
                      [] OTHER -> bad
          [] OTHER ->  \* a plain word
                CASE st.mode = "empty" -> [st EXCEPT !.mode = "scalar", !.text = b]
                  [] st.mode = "scalar" /\ ~st.closed ->
                        [st EXCEPT !.text = Fold(st.text, st.blanks, b), !.blanks = 0]
                  [] OTHER -> bad

RECURSIVE YamlScan(_, _)
YamlScan(st, ls) == IF ls = <<>> THEN st ELSE YamlScan(YamlStep(st, Head(ls)), Tail(ls))

\* yaml.safe_load(content): YamlError when it raises yaml.YAMLError.
YamlLoad(content) ==
    LET st == YamlScan(YamlStart, Split(content, "\n"))
    IN  CASE st.mode = "error"  -> YamlError
          [] st.mode = "empty"  -> PyNone
          [] st.mode = "map"    -> PyDict(st.map)
          [] st.mode = "seq"    -> PyList(st.seq)
          [] OTHER              -> ResolveScalar(st.text)

\* ------------------------------------------------------------ YAMLRepairer
\* re.match(r'^[a-zA-Z_][a-zA-Z0-9_]*$', s)
IsIdentifier(s) ==
    /\ s # <<>>
    /\ s[1] \in Letters \cup {"_"}
    /\ \A i \in 2..Len(s) : s[i] \in Letters \cup Digits \cup {"_"}

\* The loop body of repair_yaml_content: a bare identifier gets a colon.
RepairLine(line) ==
    IF /\ Strip(line) # <<>>
       /\ ~StartsWith(Strip(line), <<"-">>)
       /\ ~Contains(line, <<":">>)
       /\ IsIdentifier(Strip(line))
    THEN RStrip(line) \o <<":">>
    ELSE line

\* Index of the first non-whitespace character at or after i.
RECURSIVE SkipWs(_, _)
SkipWs(s, i) == IF i > Len(s) \/ s[i] \notin WhiteSpace THEN i ELSE SkipWs(s, i + 1)

\* Position of the opening quote of a match of ^\s*-\s*"(.+)"$ that starts at
\* i, or 0 (\s also matches newlines).
QuoteOpen(s, i) ==
    LET j == SkipWs(s, i)
        k == IF j <= Len(s) /\ s[j] = "-" THEN SkipWs(s, j + 1) ELSE 0
    IN  IF k > 0 /\ k <= Len(s) /\ s[k] = "\"" THEN k ELSE 0

\* Whether that match exists: the line of the opening quote ends in a quote,
\* with at least one character between the two.
QuoteMatches(s, i) ==
    LET k == QuoteOpen(s, i)
        e == Find(s, "\n", k + 1)
    IN  /\ (i = 1 \/ s[i - 1] = "\n")
        /\ k > 0
        /\ e - 2 >= k + 1
        /\ s[e - 1] = "\""

\* re.sub(r'^\s*-\s*"(.+)"$', r'  - "\1"', content, flags=re.MULTILINE)
RECURSIVE QuoteSub(_, _)
QuoteSub(s, i) ==
    IF i > Len(s) THEN <<>>
    ELSE IF QuoteMatches(s, i)
         THEN LET k == QuoteOpen(s, i)
                  e == Find(s, "\n", k + 1)
              IN  <<" ", " ", "-", " ", "\"">> \o SubSeq(s, k + 1, e - 2) \o <<"\"">>
                      \o QuoteSub(s, e)
         ELSE <<s[i]>> \o QuoteSub(s, i + 1)

repair_yaml_content(content) ==
    LET c1 == Replace(content, <<"-", "-", "-">>, <<>>)
        c2 == Replace(c1, <<"\t">>, <<" ", " ">>)
        lines == Split(c2, "\n")
        repaired_lines == [i \in 1..Len(lines) |-> RepairLine(lines[i])]
    IN  QuoteSub(Join(repaired_lines, <<"\n">>), 1)

\* Strategy 3, one line of the loop. current_key None is the empty key.
SalvageStep(st, raw) ==
    LET line == Strip(raw)
        flushed == IF st.current_key # <<>> /\ st.current_value # <<>>
                   THEN MapPut(st.data, st.current_key,
                               PyStr(Strip(Join(st.current_value, <<"\n">>))))
                   ELSE st.data
        i == Find(line, ":", 1)
        rhs == Strip(SubSeq(line, i + 1, Len(line)))
    IN  IF line = <<>> \/ StartsWith(line, <<"#">>) THEN st
        ELSE IF Contains(line, <<":">>) /\ ~StartsWith(line, <<"-">>)
             THEN [data |-> flushed,
                   current_key |-> Strip(SubSeq(line, 1, i - 1)),
                   current_value |-> IF rhs # <<>> THEN <<rhs>> ELSE <<>>]
             ELSE IF st.current_key # <<>>
                  THEN [st EXCEPT !.current_value = Append(@, line)]
                  ELSE st

RECURSIVE SalvageScan(_, _)
SalvageScan(st, ls) ==
    IF ls = <<>> THEN st ELSE SalvageScan(SalvageStep(st, Head(ls)), Tail(ls))

\* Strategy 3: the mapping collected line by line (possibly empty).
LineSalvage(content) ==
    LET st == SalvageScan([data |-> EmptyMap, current_key |-> <<>>, current_value |-> <<>>],
                          Split(content, "\n"))
    IN  IF st.current_key # <<>> /\ st.current_value # <<>>
        THEN MapPut(st.data, st.current_key,
                    PyStr(Strip(Join(st.current_value, <<"\n">>))))
        ELSE st.data

\* A structural strategy that returns whatever safe_load returns without
\* testing 'if data:'.
Strategy_unchecked(text) ==
    LET data == YamlLoad(text)
    IN  IF data.t # "error" THEN data ELSE PyNone

\* One structural strategy: the loaded value when safe_load does not raise and
\* the value is truthy, None when the code falls through to the next one.
Strategy(text) ==
    LET data == YamlLoad(text)
    IN  IF data.t # "error" /\ Truthy(data) THEN data ELSE PyNone

NoError == [t |-> "none", v |-> <<>>]

Error(msg) == [t |-> "msg", v |-> msg]

\* parse_with_recovery: (data, error), and in tried the strategies it ran.
parse_with_recovery(f) ==
    IF ~f.readable
    THEN [data |-> PyNone, error |-> Error("Failed to read file"), tried |-> <<>>]
    ELSE IF Strategy(f.content).t # "none"
    THEN [data |-> Strategy(f.content), error |-> NoError, tried |-> <<"direct">>]
    ELSE IF Strategy(repair_yaml_content(f.content)).t # "none"
    THEN [data |-> Strategy(repair_yaml_content(f.content)), error |-> NoError,
          tried |-> <<"direct", "repaired">>]
    ELSE IF DOMAIN LineSalvage(f.content) # {}
    THEN [data |-> PyDict(LineSalvage(f.content)), error |-> NoError,
          tried |-> <<"direct", "repaired", "salvage">>]
    ELSE [data |-> PyNone, error |-> Error("All parsing strategies failed"),
          tried |-> <<"direct", "repaired", "salvage">>]

\* ------------------------------------------------------------ dictionary keys
K_marker_name == <<"m", "a", "r", "k", "e", "r", "_", "n", "a", "m", "e">>
K_beschreibung == <<"b", "e", "s", "c", "h", "r", "e", "i", "b", "u", "n", "g">>
K_beispiele == <<"b", "e", "i", "s", "p", "i", "e", "l", "e">>
K_metadata == <<"m", "e", "t", "a", "d", "a", "t", "a">>
K_kategorie == <<"k", "a", "t", "e", "g", "o", "r", "i", "e">>
K_semantische_grabber_id ==
        <<"s", "e", "m", "a", "n", "t", "i", "s", "c", "h", "e", "_", "g", "r", "a",
        "b", "b", "e", "r", "_", "i", "d">>
K_id == <<"_", "i", "d">>
K_frame == <<"f", "r", "a", "m", "e">>
K_examples == <<"e", "x", "a", "m", "p", "l", "e", "s">>
K_pattern == <<"p", "a", "t", "t", "e", "r", "n">>
K_composed_of == <<"c", "o", "m", "p", "o", "s", "e", "d", "_", "o", "f">>
K_detect_class == <<"d", "e", "t", "e", "c", "t", "_", "c", "l", "a", "s", "s">>
K_category == <<"c", "a", "t", "e", "g", "o", "r", "y">>
K_semantic_id == <<"s", "e", "m", "a", "n", "t", "i", "c", "_", "i", "d">>
K_original_description ==
        <<"o", "r", "i", "g", "i", "n", "a", "l", "_", "d", "e", "s", "c", "r", "i",
        "p", "t", "i", "o", "n">>
K_created == <<"c", "r", "e", "a", "t", "e", "d">>
K_author == <<"a", "u", "t", "h", "o", "r">>
K_version == <<"v", "e", "r", "s", "i", "o", "n">>
K_tags == <<"t", "a", "g", "s">>
K_created_at == <<"c", "r", "e", "a", "t", "e", "d", "_", "a", "t">>
K_created_by == <<"c", "r", "e", "a", "t", "e", "d", "_", "b", "y">>
K_signal == <<"s", "i", "g", "n", "a", "l">>
K_concept == <<"c", "o", "n", "c", "e", "p", "t">>
K_pragmatics == <<"p", "r", "a", "g", "m", "a", "t", "i", "c", "s">>
K_narrative == <<"n", "a", "r", "r", "a", "t", "i", "v", "e">>
K_type == <<"t", "y", "p", "e">>
K_marker_ids == <<"m", "a", "r", "k", "e", "r", "_", "i", "d", "s">>

\* dict.get(k, default)
Get(d, k, default) == IF k \in DOMAIN d THEN d[k] ELSE default

\* Python's str(x) for the values the documents hold.
RECURSIVE IntToStr(_)
IntToStr(n) ==
    IF n < 10 THEN <<<<"0","1","2","3","4","5","6","7","8","9">>[n + 1]>>
    ELSE IntToStr(n \div 10) \o <<<<"0","1","2","3","4","5","6","7","8","9">>[(n % 10) + 1]>>

StrOf(x) ==
    CASE x.t = "str"  -> x.v
      [] x.t = "none" -> <<"N", "o", "n", "e">>
      [] x.t = "int"  -> IntToStr(x.v)
      [] OTHER        -> <<"<">> \o <<x.t>> \o <<">">>

Upper == <<"A","B","C","D","E","F","G","H","I","J","K","L","M",
           "N","O","P","Q","R","S","T","U","V","W","X","Y","Z">>

Lower == <<"a","b","c","d","e","f","g","h","i","j","k","l","m",
           "n","o","p","q","r","s","t","u","v","w","x","y","z">>

\* str.lower()
ToLower(s) ==
    [i \in 1..Len(s) |->
        IF \E j \in 1..26 : Upper[j] = s[i]
        THEN Lower[CHOOSE j \in 1..26 : Upper[j] = s[i]]
        ELSE s[i]]

\* -------------------------------------------------------- MarkerNormalizer
\* CONFIG['MIN_EXAMPLES'] of complete_markers.py
MIN_EXAMPLES == 5

\* self.frame_templates['ENTITY']
T_ENTITY ==
    K_signal :> PyStr(<<"N", "a", "m", "e", "d", " ", "e", "n", "t", "i", "t", "y", " ", "d", "e",
        "t", "e", "c", "t", "i", "o", "n", " ", "p", "a", "t", "t", "e", "r", "n", "s">>)
    @@ K_concept :> PyStr(<<"R", "e", "c", "o", "g", "n", "i", "t", "i", "o", "n", " ", "o", "f", " ",
        "p", "e", "r", "s", "o", "n", "s", ",", " ", "o", "r", "g", "a", "n", "i", "z",
        "a", "t", "i", "o", "n", "s", ",", " ", "l", "o", "c", "a", "t", "i", "o", "n",
        "s">>)
    @@ K_pragmatics :> PyStr(<<"E", "n", "t", "i", "t", "y", " ", "e", "x", "t", "r", "a", "c", "t", "i",
        "o", "n", " ", "a", "n", "d", " ", "c", "l", "a", "s", "s", "i", "f", "i", "c",
        "a", "t", "i", "o", "n">>)
    @@ K_narrative :> PyStr(<<"I", "d", "e", "n", "t", "i", "f", "y", "i", "n", "g", " ", "k", "e", "y",
        " ", "a", "c", "t", "o", "r", "s", " ", "a", "n", "d", " ", "r", "e", "f", "e",
        "r", "e", "n", "c", "e", "s", " ", "i", "n", " ", "d", "i", "s", "c", "o", "u",
        "r", "s", "e">>)

\* self.frame_templates['ATTACHMENT']
T_ATTACHMENT ==
    K_signal :> PyStr(<<"A", "t", "t", "a", "c", "h", "m", "e", "n", "t", " ", "s", "t", "y", "l",
        "e", " ", "l", "i", "n", "g", "u", "i", "s", "t", "i", "c", " ", "p", "a", "t",
        "t", "e", "r", "n", "s">>)
    @@ K_concept :> PyStr(<<"P", "s", "y", "c", "h", "o", "l", "o", "g", "i", "c", "a", "l", " ", "a",
        "t", "t", "a", "c", "h", "m", "e", "n", "t", " ", "t", "h", "e", "o", "r", "y",
        " ", "m", "a", "r", "k", "e", "r", "s">>)
    @@ K_pragmatics :> PyStr(<<"R", "e", "l", "a", "t", "i", "o", "n", "s", "h", "i", "p", " ", "p", "a",
        "t", "t", "e", "r", "n", " ", "i", "d", "e", "n", "t", "i", "f", "i", "c", "a",
        "t", "i", "o", "n">>)
    @@ K_narrative :> PyStr(<<"U", "n", "d", "e", "r", "s", "t", "a", "n", "d", "i", "n", "g", " ", "i",
        "n", "t", "e", "r", "p", "e", "r", "s", "o", "n", "a", "l", " ", "d", "y", "n",
        "a", "m", "i", "c", "s", " ", "t", "h", "r", "o", "u", "g", "h", " ", "l", "a",
        "n", "g", "u", "a", "g", "e">>)

\* self.frame_templates['EMOTION']
T_EMOTION ==
    K_signal :> PyStr(<<"E", "m", "o", "t", "i", "o", "n", "a", "l", " ", "e", "x", "p", "r", "e",
        "s", "s", "i", "o", "n", " ", "p", "a", "t", "t", "e", "r", "n", "s">>)
    @@ K_concept :> PyStr(<<"A", "f", "f", "e", "c", "t", "i", "v", "e", " ", "s", "t", "a", "t", "e",
        " ", "i", "n", "d", "i", "c", "a", "t", "o", "r", "s">>)
    @@ K_pragmatics :> PyStr(<<"E", "m", "o", "t", "i", "o", "n", " ", "r", "e", "c", "o", "g", "n", "i",
        "t", "i", "o", "n", " ", "a", "n", "d", " ", "t", "r", "a", "c", "k", "i", "n",
        "g">>)
    @@ K_narrative :> PyStr(<<"M", "o", "n", "i", "t", "o", "r", "i", "n", "g", " ", "e", "m", "o", "t",
        "i", "o", "n", "a", "l", " ", "t", "r", "a", "j", "e", "c", "t", "o", "r", "i",
        "e", "s", " ", "i", "n", " ", "c", "o", "n", "v", "e", "r", "s", "a", "t", "i",
        "o", "n">>)

\* self.frame_templates['CONVERSATION']
T_CONVERSATION ==
    K_signal :> PyStr(<<"C", "o", "n", "v", "e", "r", "s", "a", "t", "i", "o", "n", "a", "l", " ",
        "d", "y", "n", "a", "m", "i", "c", "s", " ", "p", "a", "t", "t", "e", "r", "n",
        "s">>)
    @@ K_concept :> PyStr(<<"I", "n", "t", "e", "r", "a", "c", "t", "i", "o", "n", " ", "a", "n", "d",
        " ", "d", "i", "a", "l", "o", "g", "u", "e", " ", "s", "t", "r", "u", "c", "t",
        "u", "r", "e", "s">>)
    @@ K_pragmatics :> PyStr(<<"C", "o", "n", "v", "e", "r", "s", "a", "t", "i", "o", "n", " ", "f", "l",
        "o", "w", " ", "a", "n", "a", "l", "y", "s", "i", "s">>)
    @@ K_narrative :> PyStr(<<"U", "n", "d", "e", "r", "s", "t", "a", "n", "d", "i", "n", "g", " ", "c",
        "o", "m", "m", "u", "n", "i", "c", "a", "t", "i", "o", "n", " ", "p", "a", "t",
        "t", "e", "r", "n", "s", " ", "a", "n", "d", " ", "s", "t", "r", "a", "t", "e",
        "g", "i", "e", "s">>)

\* self.frame_templates['META']
T_META ==
    K_signal :> PyStr(<<"M", "e", "t", "a", "-", "l", "e", "v", "e", "l", " ", "c", "o", "m", "m",
        "u", "n", "i", "c", "a", "t", "i", "o", "n", " ", "p", "a", "t", "t", "e", "r",
        "n", "s">>)
    @@ K_concept :> PyStr(<<"H", "i", "g", "h", "e", "r", "-", "o", "r", "d", "e", "r", " ", "l", "i",
        "n", "g", "u", "i", "s", "t", "i", "c", " ", "s", "t", "r", "u", "c", "t", "u",
        "r", "e", "s">>)
    @@ K_pragmatics :> PyStr(<<"M", "e", "t", "a", "-", "c", "o", "m", "m", "u", "n", "i", "c", "a", "t",
        "i", "o", "n", " ", "a", "n", "a", "l", "y", "s", "i", "s">>)
    @@ K_narrative :> PyStr(<<"D", "e", "t", "e", "c", "t", "i", "n", "g", " ", "a", "b", "s", "t", "r",
        "a", "c", "t", " ", "p", "a", "t", "t", "e", "r", "n", "s", " ", "a", "c", "r",
        "o", "s", "s", " ", "m", "u", "l", "t", "i", "p", "l", "e", " ", "m", "a", "r",
        "k", "e", "r", "s">>)

\* self.frame_templates
frame_templates ==
    "ENTITY" :> T_ENTITY @@ "ATTACHMENT" :> T_ATTACHMENT @@ "EMOTION" :> T_EMOTION
    @@ "CONVERSATION" :> T_CONVERSATION @@ "META" :> T_META

S_A_LOC == <<"A", "_", "L", "O", "C">>
S_A_PER == <<"A", "_", "P", "E", "R">>
S_A_ORG == <<"A", "_", "O", "R", "G">>
S_ATTACHMENT == <<"A", "T", "T", "A", "C", "H", "M", "E", "N", "T">>
S_attachment == <<"a", "t", "t", "a", "c", "h", "m", "e", "n", "t">>
S_EMO_ == <<"E", "M", "O", "_">>
S_emotion == <<"e", "m", "o", "t", "i", "o", "n">>
S_MM_ == <<"M", "M", "_">>
S_C_ == <<"C", "_">>
S_S_ == <<"S", "_">>
S_yaml == <<".", "y", "a", "m", "l">>
S_for == <<" ", "f", "o", "r", " ">>
S_Pattern_for == <<"P", "a", "t", "t", "e", "r", "n", " ", "f", "o", "r", " ">>
S_Example_usage_pattern ==
        <<"E", "x", "a", "m", "p", "l", "e", " ", "u", "s", "a", "g", "e", " ", "p",
        "a", "t", "t", "e", "r", "n", " ">>
S_for_this_marker ==
        <<" ", "f", "o", "r", " ", "t", "h", "i", "s", " ", "m", "a", "r", "k", "e",
        "r">>
S_examples_colon == <<"e", "x", "a", "m", "p", "l", "e", "s", ":">>
S_tool ==
        <<"c", "o", "m", "p", "l", "e", "t", "e", "_", "m", "a", "r", "k", "e", "r",
        "s", ".", "p", "y">>
S_1_0 == <<"1", ".", "0">>
S_normalized == <<"n", "o", "r", "m", "a", "l", "i", "z", "e", "d">>
S_ld311 == <<"l", "d", "3", ".", "1", "1">>

\* detect_category, for a mapping whose marker_name (if any) is a str.
detect_category(md) ==
    LET marker_name == Get(md, K_marker_name, PyStr(<<>>)).v
        description == StrOf(Get(md, K_beschreibung, PyStr(<<>>)))
    IN  IF \/ StartsWith(marker_name, S_A_LOC)
           \/ StartsWith(marker_name, S_A_PER)
           \/ StartsWith(marker_name, S_A_ORG)
        THEN "ENTITY"
        ELSE IF Contains(marker_name, S_ATTACHMENT) \/ Contains(ToLower(description), S_attachment)
        THEN "ATTACHMENT"
        ELSE IF Contains(marker_name, S_EMO_) \/ Contains(ToLower(description), S_emotion)
        THEN "EMOTION"
        ELSE IF StartsWith(marker_name, S_MM_)
        THEN "META"
        ELSE IF StartsWith(marker_name, S_C_) \/ StartsWith(marker_name, S_S_)
        THEN "CONVERSATION"
        ELSE "CONVERSATION"

\* generate_frame: the category's template, its signal specialised when the
\* mapping has a non-empty marker_name.
generate_frame(md) ==
    LET template == frame_templates[detect_category(md)]
        marker_name == Get(md, K_marker_name, PyStr(<<>>)).v
    IN  IF marker_name # <<>>
        THEN [template EXCEPT ![K_signal] = PyStr(template[K_signal].v \o S_for \o marker_name)]
        ELSE template

\* str.strip('"')
RECURSIVE StripQuotes(_)
StripQuotes(s) ==
    IF s # <<>> /\ Head(s) = "\"" THEN StripQuotes(Tail(s))
    ELSE IF s # <<>> /\ s[Len(s)] = "\"" THEN StripQuotes(SubSeq(s, 1, Len(s) - 1))
    ELSE s

\* The cleaning of one str example.
CleanExample(ex) ==
    LET s == Strip(ex)
    IN  StripQuotes(IF StartsWith(s, <<"-", " ">>) THEN SubSeq(s, 3, Len(s)) ELSE s)

RECURSIVE CleanExamples(_)
CleanExamples(items) ==
    IF items = <<>> THEN <<>>
    ELSE LET ex == Head(items)
             keep == /\ ex.t = "str"
                     /\ CleanExample(ex.v) # <<>>
                     /\ CleanExample(ex.v) # S_examples_colon
                     /\ CleanExample(ex.v) # <<"-">>
         IN  (IF keep THEN <<PyStr(CleanExample(ex.v))>> ELSE <<>>)
                 \o CleanExamples(Tail(items))

RECURSIVE PadExamples(_)
PadExamples(clean_examples) ==
    IF Len(clean_examples) < MIN_EXAMPLES
    THEN PadExamples(Append(clean_examples,
             PyStr(S_Example_usage_pattern \o IntToStr(Len(clean_examples) + 1)
                   \o S_for_this_marker)))
    ELSE clean_examples

\* ensure_minimum_examples without the loop that generates the missing examples.
ensure_minimum_examples_unpadded(examples) ==
    IF examples.t = "list" THEN CleanExamples(examples.v) ELSE <<>>

\* ensure_minimum_examples(examples): examples is any value.
ensure_minimum_examples(examples) ==
    PadExamples(IF examples.t = "list" THEN CleanExamples(examples.v) ELSE <<>>)

\* The two hidden inputs of normalize_marker: datetime.now().isoformat() and
\* the iteration order of set(tags), given as an ordering of the tag values.
Clock == {<<"t", "1">>, <<"t", "2">>}

TagValues == {PyStr(S_normalized), PyStr(S_ld311)}

TagOrders == {o \in [1..Cardinality(TagValues) -> TagValues] :
                 \A i, j \in 1..Cardinality(TagValues) : i # j => o[i] # o[j]}

Envs == [now : Clock, order : TagOrders]

\* The items set(tags) iterates over, for an iterable tags.
SetItems(tags) ==
    IF tags.t = "str" THEN {PyStr(<<tags.v[i]>>) : i \in 1..Len(tags.v)}
    ELSE {tags.v[i] : i \in 1..Len(tags.v)}

\* list(set(tags))
ListOfSet(tags, order) ==
    LET In(x) == x \in SetItems(tags)
    IN  SelectSeq(order, In)

Raise(type) == [t |-> "raise", v |-> type]

\* set(tags) raises TypeError for a value that is not iterable or holds an
\* unhashable item.
TagsUnhashable(tags) ==
    \/ tags.t \notin {"list", "str"}
    \/ tags.t = "list" /\ \E i \in 1..Len(tags.v) : tags.v[i].t \in {"list", "dict"}

\* normalize_marker(marker_data, file_name): the normalized mapping, or the
\* exception it raises.
normalize_marker(marker_data, file_name, env) ==
    IF marker_data.t # "dict" THEN Raise("AttributeError")
    ELSE
    LET md == marker_data.v
        marker_id == Get(md, K_marker_name, PyStr(Replace(file_name, S_yaml, <<>>)))
        metadata == Get(md, K_metadata, PyDict(EmptyMap))
        tags == Get(metadata.v, K_tags, PyList(<<PyStr(S_normalized), PyStr(S_ld311)>>))
        meta_out == [k \in {K_created, K_author, K_version, K_tags} |->
                        CASE k = K_created -> Get(metadata.v, K_created_at, PyStr(env.now))
                          [] k = K_author  -> Get(metadata.v, K_created_by, PyStr(S_tool))
                          [] k = K_version -> Get(metadata.v, K_version, PyStr(S_1_0))
                          [] OTHER         -> PyList(ListOfSet(tags, env.order))]
        optional == {k \in {K_category, K_semantic_id, K_original_description} :
                        \/ k = K_category /\ K_kategorie \in DOMAIN md
                        \/ k = K_semantic_id /\ K_semantische_grabber_id \in DOMAIN md
                        \/ k = K_original_description /\ K_beschreibung \in DOMAIN md}
    IN  IF Get(md, K_marker_name, PyStr(<<>>)).t # "str" THEN Raise("AttributeError")
        ELSE IF metadata.t # "dict" THEN Raise("AttributeError")
        ELSE IF TagsUnhashable(tags) THEN Raise("TypeError")
        ELSE PyDict(
            [k \in {K_id, K_frame, K_examples, K_pattern, K_metadata} \cup optional |->
                CASE k = K_id       -> marker_id
                  [] k = K_frame    -> PyDict(generate_frame(md))
                  [] k = K_examples ->
                        PyList(ensure_minimum_examples(Get(md, K_beispiele, PyList(<<>>))))
                  [] k = K_pattern  -> PyStr(S_Pattern_for \o StrOf(marker_id))
                  [] k = K_metadata -> PyDict(meta_out)
                  [] k = K_category -> md[K_kategorie]
                  [] k = K_semantic_id -> md[K_semantische_grabber_id]
                  [] OTHER -> PyStr(StrOf(md[K_beschreibung]))])


\* ------------------------------------------------------ LeanDeep31Validator
\* CONFIG['MIN_EXAMPLES'] of qualify_marker_set.py.
Q_MIN_EXAMPLES == 5

\* required_fields without 'examples'.
required_fields_without_examples == {K_id, K_frame}

required_fields == {K_id, K_frame, K_examples}

frame_fields == {K_signal, K_concept, K_pragmatics, K_narrative}

optional_fields ==
    {K_metadata, K_category, K_semantic_id, K_original_description, K_pattern,
     K_composed_of, K_detect_class}

xor_fields == <<K_pattern, K_composed_of, K_detect_class>>

recommended == {K_created, K_author, K_version, K_tags}

\* type(x).__name__
TypeName(x) ==
    CASE x.t = "str"  -> "str"
      [] x.t = "list" -> "list"
      [] x.t = "dict" -> "dict"
      [] x.t = "int"  -> "int"
      [] x.t = "bool" -> "bool"
      [] OTHER        -> "NoneType"

\* A formatted message: its fixed text and the values formatted into it.
Message(text, detail) == [msg |-> text, with |-> detail]

\* self.errors.append(message); return False
Fail(self, message) ==
    [ok |-> FALSE, errors |-> Append(self.errors, message), warnings |-> self.warnings]

\* self.warnings.append(message)
Warn(self, message) ==
    [errors |-> self.errors, warnings |-> Append(self.warnings, message)]

\* return True
Pass(self) == [ok |-> TRUE, errors |-> self.errors, warnings |-> self.warnings]

\* validate_xor_constraint that only rejects a marker with no descriptor.
validate_xor_constraint_at_least_one(self, marker) ==
    IF \A i \in 1..Len(xor_fields) : xor_fields[i] \notin DOMAIN marker.v
    THEN Fail(self, Message("XOR constraint violated", <<>>))
    ELSE Pass(self)

validate_xor_constraint(self, marker) ==
    LET Present(f) == f \in DOMAIN marker.v
        present_fields == SelectSeq(xor_fields, Present)
    IN  IF Len(present_fields) # 1
        THEN Fail(self, Message("XOR constraint violated", present_fields))
        ELSE Pass(self)

\* The loop over self.frame_fields, a set: order is the order the set is
\* iterated in.
RECURSIVE FrameFieldsLoop(_, _, _, _)
FrameFieldsLoop(self, frame, order, i) ==
    IF i > Len(order) THEN Pass(self)
    ELSE IF frame[order[i]].t # "str"
    THEN Fail(self, Message("Frame field must be a string",
                            <<order[i], TypeName(frame[order[i]])>>))
    ELSE IF Strip(frame[order[i]].v) = <<>>
    THEN FrameFieldsLoop(Warn(self, Message("Frame field is empty", order[i])),
                         frame, order, i + 1)
    ELSE FrameFieldsLoop(self, frame, order, i + 1)

validate_frame_structure(self, frame, order) ==
    IF frame.t # "dict"
    THEN Fail(self, Message("Frame must be a dictionary", TypeName(frame)))
    ELSE IF frame_fields \ DOMAIN frame.v # {}
    THEN Fail(self, Message("Frame missing required fields", frame_fields \ DOMAIN frame.v))
    ELSE FrameFieldsLoop(self, frame.v, order, 1)

\* example[:50]
First50(s) == SubSeq(s, 1, IF Len(s) < 50 THEN Len(s) ELSE 50)

\* The loop over enumerate(examples); unique_examples holds the examples
\* before the i-th.
RECURSIVE ExamplesLoop(_, _, _)
ExamplesLoop(self, examples, i) ==
    IF i > Len(examples) THEN Pass(self)
    ELSE IF examples[i].t # "str"
    THEN Fail(self, Message("Example must be a string", <<i - 1, TypeName(examples[i])>>))
    ELSE IF \E j \in 1..(i - 1) : examples[j] = examples[i]
    THEN ExamplesLoop(Warn(self, Message("Duplicate example found", First50(examples[i].v))),
                      examples, i + 1)
    ELSE ExamplesLoop(self, examples, i + 1)

validate_examples(self, examples) ==
    IF examples.t # "list"
    THEN Fail(self, Message("Examples must be a list", TypeName(examples)))
    ELSE IF Len(examples.v) < Q_MIN_EXAMPLES
    THEN Fail(self, Message("Insufficient examples", Len(examples.v)))
    ELSE ExamplesLoop(self, examples.v, 1)

\* The check of metadata['tags'] once it is known to be a list.
TagsCheck(self, tags) ==
    IF \E i \in 1..Len(tags) : tags[i].t \in {"list", "dict"}
    THEN Raise("TypeError")
    ELSE IF Len(tags) # Cardinality({tags[i] : i \in 1..Len(tags)})
    THEN Pass(Warn(self, Message("Duplicate tags found in metadata", <<>>)))
    ELSE Pass(self)

\* validate_metadata with its two hard errors turned into warnings.
validate_metadata_lenient(self, metadata) ==
    IF metadata.t = "none" THEN Pass(self)
    ELSE IF metadata.t # "dict"
    THEN Pass(Warn(self, Message("Metadata must be a dictionary", TypeName(metadata))))
    ELSE IF K_tags \in DOMAIN metadata.v /\ metadata.v[K_tags].t # "list"
    THEN Pass(Warn(self, Message("Metadata 'tags' must be a list", <<>>)))
    ELSE Pass(self)

validate_metadata(self, metadata) ==
    IF metadata.t = "none" THEN Pass(self)
    ELSE IF metadata.t # "dict"
    THEN Fail(self, Message("Metadata must be a dictionary", TypeName(metadata)))
    ELSE LET missing == recommended \ DOMAIN metadata.v
             warned == IF missing # {}
                       THEN Warn(self, Message("Metadata missing recommended fields", missing))
                       ELSE self
         IN  IF K_tags \notin DOMAIN metadata.v THEN Pass(warned)
             ELSE IF metadata.v[K_tags].t # "list"
             THEN Fail(warned, Message("Metadata 'tags' must be a list", <<>>))
             ELSE TagsCheck(warned, metadata.v[K_tags].v)

validate_pattern(self, pattern) ==
    IF pattern.t # "str"
    THEN Fail(self, Message("Pattern must be a string", TypeName(pattern)))
    ELSE IF Strip(pattern.v) = <<>>
    THEN Pass(Warn(self, Message("Pattern is empty", <<>>)))
    ELSE Pass(self)

RECURSIVE ComponentsLoop(_, _, _)
ComponentsLoop(self, composed_of, i) ==
    IF i > Len(composed_of) THEN Pass(self)
    ELSE IF composed_of[i].t # "dict"
    THEN Fail(self, Message("composed_of[i] must be a dictionary", i - 1))
    ELSE IF K_type \notin DOMAIN composed_of[i].v \/ K_marker_ids \notin DOMAIN composed_of[i].v
    THEN Fail(self, Message("composed_of[i] must have 'type' and 'marker_ids' fields", i - 1))
    ELSE ComponentsLoop(self, composed_of, i + 1)

validate_composed_of(self, composed_of) ==
    IF composed_of.t # "list"
    THEN Fail(self, Message("composed_of must be a list", TypeName(composed_of)))
    ELSE ComponentsLoop(self, composed_of.v, 1)

\* What validate_marker returns: (is_valid, errors, warnings).
Validated(is_valid, errors, warnings) ==
    [t |-> "validated", is_valid |-> is_valid, errors |-> errors, warnings |-> warnings]


\* The rest of validate_marker once the frame, the examples and the XOR
\* constraint have passed: the optional fields and the unknown fields.
OptionalChecks(self, marker) ==
    LET patterned == IF K_pattern \in DOMAIN marker.v
                     THEN validate_pattern(self, marker.v[K_pattern])
                     ELSE self
        composed == IF K_composed_of \in DOMAIN marker.v
                    THEN validate_composed_of(patterned, marker.v[K_composed_of])
                    ELSE patterned
    IN  IF K_metadata \in DOMAIN marker.v
        THEN validate_metadata(composed, marker.v[K_metadata])
        ELSE Pass(composed)

UnknownFields(marker) ==
    DOMAIN marker.v \ (required_fields \cup optional_fields
                       \cup {K_pattern, K_composed_of, K_detect_class})

\* validate_marker(marker) for a mapping marker: (is_valid, errors, warnings),
\* or the exception it raises.  order is the iteration order of frame_fields.
validate_marker(marker, order) ==
    IF marker.t # "dict" THEN Raise("AttributeError")
    ELSE IF required_fields \ DOMAIN marker.v # {}
    THEN Validated(FALSE,
                   <<Message("Missing required fields", required_fields \ DOMAIN marker.v)>>,
                   <<>>)
    ELSE
    LET id == marker.v[K_id]
        started == [errors |-> IF id.t # "str" \/ Strip(id.v) = <<>>
                               THEN <<Message("_id must be a non-empty string", <<>>)>>
                               ELSE <<>>,
                    warnings |-> <<>>]
        framed == validate_frame_structure(started, Get(marker.v, K_frame, PyNone), order)
    IN  IF ~framed.ok THEN Validated(FALSE, framed.errors, framed.warnings)
        ELSE
        LET exampled == validate_examples(framed, Get(marker.v, K_examples, PyNone))
        IN  IF ~exampled.ok THEN Validated(FALSE, exampled.errors, exampled.warnings)
            ELSE
            LET xored == validate_xor_constraint(exampled, marker)
            IN  IF ~xored.ok THEN Validated(FALSE, xored.errors, xored.warnings)
                ELSE
                LET checked == OptionalChecks(xored, marker)
                IN  IF "t" \in DOMAIN checked THEN checked
                    ELSE IF UnknownFields(marker) # {}
                    THEN Validated(Len(checked.errors) = 0, checked.errors,
                             Append(checked.warnings,
                                 Message("Unknown fields will be preserved",
                                         UnknownFields(marker))))
                    ELSE Validated(Len(checked.errors) = 0, checked.errors,
                                   checked.warnings)

\* ----------------------------------------------------------- MarkerQualifier
\* The length above which the average frame text earns its bonus.
FRAME_BONUS_LENGTH == 50

\* 'field in container' for each of the given fields, or the TypeError of a
\* container that is not iterable.
AllIn(fields, container) ==
    CASE container.t = "dict" -> \A f \in fields : f \in DOMAIN container.v
      [] container.t = "str"  -> \A f \in fields : Contains(container.v, f)
      [] container.t = "list" ->
            \A f \in fields : \E i \in 1..Len(container.v) : container.v[i] = PyStr(f)
      [] OTHER -> FALSE

HasLen(x) == x.t \in {"str", "list", "dict"}

PyLen(x) == IF x.t = "dict" THEN Cardinality(DOMAIN x.v) ELSE Len(x.v)

\* sum(len(frame.get(f, '')) for f in frame)
RECURSIVE SumLen(_, _)
SumLen(frame, keys) ==
    IF keys = {} THEN 0
    ELSE LET f == CHOOSE k \in keys : TRUE
         IN  PyLen(frame[f]) + SumLen(frame, keys \ {f})

\* The rating of a score.
Rating(score) ==
    IF score >= 90 THEN "Excellent"
    ELSE IF score >= 80 THEN "Good"
    ELSE IF score >= 70 THEN "Acceptable"
    ELSE IF score >= 60 THEN "Needs Improvement"
    ELSE "Poor"

Min(a, b) == IF a < b THEN a ELSE b

Max(a, b) == IF a > b THEN a ELSE b

\* A scoring that refuses every marker that has warnings.
calculate_quality_score_no_warnings(marker, warnings) ==
    IF warnings # <<>> THEN Raise("ValueError")
    ELSE [t |-> "score", score |-> 100, rating |-> "Excellent"]

\* calculate_quality_score(marker, warnings) for a mapping marker: (score,
\* rating), or the exception it raises.  avg_length > 50 is decided on the sum,
\* avg_length being the sum divided by 4.
calculate_quality_score(marker, warnings) ==
    LET m == marker.v
        examples == Get(m, K_examples, PyList(<<>>))
        frame == m[K_frame]
    IN  IF K_metadata \in DOMAIN m /\ m[K_metadata].t \notin {"dict", "str", "list"}
        THEN Raise("TypeError")
        ELSE IF ~HasLen(examples) THEN Raise("TypeError")
        ELSE IF K_frame \in DOMAIN m /\ frame.t # "dict" THEN Raise("AttributeError")
        ELSE IF K_frame \in DOMAIN m /\ \E f \in DOMAIN frame.v : ~HasLen(frame.v[f])
        THEN Raise("TypeError")
        ELSE
        LET score == 100 - Len(warnings) * 5
                     + (IF K_metadata \in DOMAIN m /\ AllIn(recommended, m[K_metadata])
                        THEN 10 ELSE 0)
                     + (IF PyLen(examples) > Q_MIN_EXAMPLES THEN 5 ELSE 0)
                     + (IF K_frame \in DOMAIN m
                           /\ SumLen(frame.v, DOMAIN frame.v) > FRAME_BONUS_LENGTH * 4
                        THEN 5 ELSE 0)
        IN  [t |-> "score", score |-> Max(0, Min(100, score)), rating |-> Rating(score)]

\* ------------------------------------------------------------------ state
VARIABLES
    file,          \* parser: the marker file handed to parse_with_recovery
    parsed,        \* parser: what parse_with_recovery returned
    marker_data,   \* normalizer: the parsed structure handed to normalize_marker
    file_name,     \* normalizer: the source name
    normalized,    \* normalizer: what normalize_marker returned
    renormalized,  \* normalizer: normalize_marker applied to its own output
    marker_dir,        \* pipeline: the files of MARKER_DIR, by name
    pending,           \* pipeline: the names the loop of the running pass has yet to visit
    final_marker_set,  \* pipeline: the files of OUTPUT_DIR, by name
    quarantine,        \* pipeline: the marker files copied to QUARANTINE, by name
    quarantine_errors, \* pipeline: the <stem>.errors.json payloads of QUARANTINE
    report_data,       \* pipeline: the report entries of the running pass
    summary_log,       \* pipeline: the rows of the SUMMARY_LOG file
    pc,                \* pipeline: where the run is
    marker,        \* qualifier: the marker loaded by qualify_marker
    validated,     \* qualifier: what validate_marker returned
    quality        \* qualifier: what calculate_quality_score returned

vars ==
    <<file, parsed, marker_data, file_name, normalized, renormalized, marker_dir, pending,
      final_marker_set, quarantine, quarantine_errors, report_data, summary_log, pc,
      marker, validated, quality>>

pipelineVars ==
    <<marker_dir, pending, final_marker_set, quarantine, quarantine_errors, report_data,
      summary_log, pc>>

parserVars == <<file, parsed>>

normalizerVars == <<marker_data, file_name, normalized, renormalized>>

qualifierVars == <<marker, validated, quality>>

\* The value of a variable before the call that sets it, and of the variables
\* of the components a specification leaves out.
Idle == [t |-> "idle", v |-> <<>>]

ParserIdle == file = Idle /\ parsed = Idle

NormalizerIdle ==
    marker_data = Idle /\ file_name = Idle /\ normalized = Idle /\ renormalized = Idle

QualifierIdle == marker = Idle /\ validated = Idle /\ quality = Idle

PipelineIdle ==
    /\ marker_dir = Idle
    /\ pending = {}
    /\ final_marker_set = Idle
    /\ quarantine = Idle
    /\ quarantine_errors = Idle
    /\ report_data = <<>>
    /\ summary_log = <<>>
    /\ pc = "idle"

\* ------------------------------------------------- the recovering parser
InitParse ==
    /\ file \in [readable : BOOLEAN, content : Bodies]
    /\ parsed = Idle
    /\ NormalizerIdle
    /\ PipelineIdle
    /\ QualifierIdle

Parse ==
    /\ file # Idle
    /\ parsed = Idle
    /\ parsed' = parse_with_recovery(file)
    /\ UNCHANGED <<file, normalizerVars, pipelineVars, qualifierVars>>

NextParse == Parse

SpecParse == InitParse /\ [][NextParse]_vars

\* --------------------------------------------------- the schema normalizer
\* A field that the structure does not have.
Absent == [t |-> "absent", v |-> <<>>]

\* The mapping holding the fields of choice that are not Absent.
MkDict(choice) ==
    PyDict([k \in {q \in DOMAIN choice : choice[q].t # "absent"} |-> choice[k]])

S_A_LOC_CAFE == <<"A", "_", "L", "O", "C", "_", "C", "A", "F", "E">>
S_MM_ATTACHMENT == <<"M", "M", "_", "A", "T", "T", "A", "C", "H", "M", "E", "N", "T">>
S_S_X == <<"S", "_", "X">>
S_Shows_Emotion == <<"S", "h", "o", "w", "s", " ", "E", "m", "o", "t", "i", "o", "n">>
S_x_yaml == <<"x", ".", "y", "a", "m", "l">>
S_A_PER_Y_yaml == <<"A", "_", "P", "E", "R", "_", "Y", ".", "y", "a", "m", "l">>
S_quoted_item == <<" ", "-", " ", "\"", "a", "\"", " ">>
S_dash == <<"-">>

NameOptions ==
    {Absent, PyNone, PyStr(<<>>), PyStr(S_A_LOC_CAFE), PyStr(S_MM_ATTACHMENT), PyStr(S_S_X)}

DescriptionOptions == {Absent, PyNone, PyStr(S_Shows_Emotion)}

ExampleOptions ==
    {Absent,
     PyStr(<<"x">>),
     PyList(<<PyStr(S_quoted_item), PyStr(S_examples_colon), PyInt(5), PyStr(<<"b">>),
              PyStr(S_dash)>>),
     PyList([i \in 1..(MIN_EXAMPLES + 1) |-> PyStr(<<"e">> \o IntToStr(i))])}

MetadataOptions ==
    {Absent,
     PyStr(<<"m">>),
     PyDict(EmptyMap),
     PyDict(K_tags :> PyNone),
     PyDict(K_created_at :> PyStr(<<"t", "0">>) @@ K_created_by :> PyStr(<<"m", "e">>)
            @@ K_version :> PyInt(2)
            @@ K_tags :> PyList(<<PyStr(S_ld311), PyStr(S_ld311)>>))}

ParsedStructures ==
    {PyStr(<<"w">>), PyList(<<PyStr(<<"x">>)>>)} \cup
    {MkDict(K_marker_name :> n @@ K_beschreibung :> d @@ K_beispiele :> e
            @@ K_metadata :> m @@ K_kategorie :> c) :
        n \in NameOptions, d \in DescriptionOptions, e \in ExampleOptions,
        m \in MetadataOptions, c \in {Absent, PyStr(<<"k">>)}}

FileNames == {S_x_yaml, S_A_PER_Y_yaml}

InitNormalize ==
    /\ marker_data \in ParsedStructures
    /\ file_name \in FileNames
    /\ normalized = Idle
    /\ renormalized = Idle
    /\ ParserIdle
    /\ PipelineIdle
    /\ QualifierIdle

Normalize ==
    /\ marker_data # Idle
    /\ normalized = Idle
    /\ \E env \in Envs : normalized' = normalize_marker(marker_data, file_name, env)
    /\ UNCHANGED <<marker_data, file_name, renormalized, parserVars, pipelineVars,
                   qualifierVars>>

\* The normalizer's output fed back through normalize_marker.
Renormalize ==
    /\ normalized.t = "dict"
    /\ renormalized = Idle
    /\ \E env \in Envs : renormalized' = normalize_marker(normalized, file_name, env)
    /\ UNCHANGED <<marker_data, file_name, normalized, parserVars, pipelineVars,
                   qualifierVars>>

NextNormalize == Normalize \/ Renormalize

SpecNormalize == InitNormalize /\ [][NextNormalize]_vars

\* ------------------------------------------------ process_markers (pass one)
K_file == <<"f", "i", "l", "e">>
K_error == <<"e", "r", "r", "o", "r">>
K_timestamp == <<"t", "i", "m", "e", "s", "t", "a", "m", "p">>
K_recovery_attempted ==
        <<"r", "e", "c", "o", "v", "e", "r", "y", "_", "a", "t", "t", "e", "m", "p",
        "t", "e", "d">>
K_error_type == <<"e", "r", "r", "o", "r", "_", "t", "y", "p", "e">>
K_stage == <<"s", "t", "a", "g", "e">>
S_normalization == <<"n", "o", "r", "m", "a", "l", "i", "z", "a", "t", "i", "o", "n">>

PyBool(b) == [t |-> "bool", v |-> b]

\* Path.stem of a marker file name.
PathStem(name) ==
    IF Len(name) >= Len(S_yaml) /\ SubSeq(name, Len(name) - Len(S_yaml) + 1, Len(name)) = S_yaml
    THEN SubSeq(name, 1, Len(name) - Len(S_yaml))
    ELSE name

\* The bodies of the marker files a run is given.
RunBodies ==
    {Join(<<l>>, <<"\n">>) : l \in Lines} \cup {Join(<<L_blank, L_tab>>, <<"\n">>)}

RunFiles ==
    [readable : {TRUE}, content : RunBodies] \cup {[readable |-> FALSE, content |-> <<>>]}

\* MARKER_DIR does not exist.
NoDir == [t |-> "nodir", v |-> <<>>]

MarkerDirs ==
    {NoDir} \cup UNION {[names -> RunFiles] : names \in SUBSET FileNames}

Init ==
    /\ marker_dir \in MarkerDirs
    /\ pending = IF marker_dir = NoDir THEN {} ELSE DOMAIN marker_dir
    /\ final_marker_set = EmptyMap
    /\ quarantine = EmptyMap
    /\ quarantine_errors = EmptyMap
    /\ report_data = <<>>
    /\ summary_log = <<>>
    /\ pc = "normalize"
    /\ ParserIdle
    /\ NormalizerIdle
    /\ QualifierIdle

\* The error payload of a document whose parse failed.
RecoveryErrorData(name, error, now) ==
    PyDict(K_file :> PyStr(name) @@ K_error :> error @@ K_timestamp :> PyStr(now)
           @@ K_recovery_attempted :> PyBool(TRUE))

\* The error payload of a document whose normalization raised.
NormalizationErrorData(name, exception, now) ==
    PyDict(K_file :> PyStr(name) @@ K_error :> Error(exception.v)
           @@ K_error_type :> Error(exception.v) @@ K_timestamp :> PyStr(now)
           @@ K_stage :> PyStr(S_normalization))

ReportEntry(name, status, error, details) ==
    [file |-> name, status |-> status, error |-> error, details |-> details]

\* process_markers returns at once when MARKER_DIR does not exist.
NoMarkerDir ==
    /\ pc = "normalize"
    /\ marker_dir = NoDir
    /\ pc' = "done"
    /\ UNCHANGED <<marker_dir, pending, final_marker_set, quarantine, quarantine_errors,
                   report_data, summary_log, parserVars, normalizerVars,
                   qualifierVars>>

\* The loop takes the next file and calls parse_with_recovery on it.
ParseMarker(name) ==
    /\ pc = "normalize"
    /\ name \in pending
    /\ file' = marker_dir[name]
    /\ file_name' = name
    /\ parsed' = parse_with_recovery(marker_dir[name])
    /\ pc' = "parsed"
    /\ UNCHANGED <<marker_data, normalized, renormalized, marker_dir, pending,
                   final_marker_set, quarantine, quarantine_errors, report_data,
                   summary_log, qualifierVars>>

\* The end of an iteration: the loop variables are dead.
NextIteration ==
    /\ pending' = pending \ {file_name}
    /\ file' = Idle
    /\ file_name' = Idle
    /\ parsed' = Idle
    /\ marker_data' = Idle
    /\ normalized' = Idle
    /\ UNCHANGED <<renormalized, marker_dir, summary_log, qualifierVars>>

\* 'if error:' for a file that can be read: the file is copied to quarantine
\* with its error payload, and the loop continues.
QuarantineUnparsed ==
    /\ pc = "parsed"
    /\ parsed.error # NoError
    /\ file.readable
    /\ \E now \in Clock :
          quarantine_errors' = MapPut(quarantine_errors, PathStem(file_name),
              RecoveryErrorData(file_name, parsed.error, now))
    /\ quarantine' = MapPut(quarantine, file_name, file.content)
    /\ report_data' = Append(report_data,
          ReportEntry(file_name, "QUARANTINED", "YAML_ERROR", parsed.error))
    /\ pc' = "normalize"
    /\ NextIteration
    /\ UNCHANGED final_marker_set

\* 'if error:' for a file that cannot be read: the copy to quarantine reads the
\* file again, outside any try, and the run ends with that exception.
CrashOnUnreadable ==
    /\ pc = "parsed"
    /\ parsed.error # NoError
    /\ ~file.readable
    /\ pc' = "crashed"
    /\ NextIteration
    /\ UNCHANGED <<final_marker_set, quarantine, quarantine_errors, report_data>>

\* The call of normalize_marker inside the try.
NormalizeMarker ==
    /\ pc = "parsed"
    /\ parsed.error = NoError
    /\ marker_data' = parsed.data
    /\ \E env \in Envs : normalized' = normalize_marker(parsed.data, file_name, env)
    /\ pc' = "normalized"
    /\ UNCHANGED <<file, parsed, file_name, renormalized, marker_dir, pending,
                   final_marker_set, quarantine, quarantine_errors, report_data,
                   summary_log, qualifierVars>>

\* normalize_marker returned: the normalized marker is dumped to OUTPUT_DIR.
WriteNormalized ==
    /\ pc = "normalized"
    /\ normalized.t = "dict"
    /\ final_marker_set' = MapPut(final_marker_set, file_name, normalized)
    /\ report_data' = Append(report_data,
          ReportEntry(file_name, "SUCCESS", "", Len(normalized.v[K_examples].v)))
    /\ pc' = "normalize"
    /\ NextIteration
    /\ UNCHANGED <<quarantine, quarantine_errors>>

\* normalize_marker raised: the file is copied to quarantine with an error
\* payload of stage normalization.
QuarantineUnnormalized ==
    /\ pc = "normalized"
    /\ normalized.t = "raise"
    /\ \E now \in Clock :
          quarantine_errors' = MapPut(quarantine_errors, PathStem(file_name),
              NormalizationErrorData(file_name, normalized, now))
    /\ quarantine' = MapPut(quarantine, file_name, file.content)
    /\ report_data' = Append(report_data,
          ReportEntry(file_name, "QUARANTINED", "NORMALIZATION_ERROR", normalized.v))
    /\ pc' = "normalize"
    /\ NextIteration
    /\ UNCHANGED final_marker_set

\* After the loop the report is written to SUMMARY_LOG.
WriteReport ==
    /\ pc = "normalize"
    /\ marker_dir # NoDir
    /\ pending = {}
    /\ summary_log' = report_data
    /\ pc' = "done"
    /\ UNCHANGED <<marker_dir, pending, final_marker_set, quarantine, quarantine_errors,
                   report_data, parserVars, normalizerVars, qualifierVars>>

Next ==
    \/ NoMarkerDir
    \/ \E name \in pending : ParseMarker(name)
    \/ QuarantineUnparsed
    \/ CrashOnUnreadable
    \/ NormalizeMarker
    \/ WriteNormalized
    \/ QuarantineUnnormalized
    \/ WriteReport

Spec == Init /\ [][Next]_vars

\* The directories of the runs whose progress is checked: files that parse
\* to a mapping, parse to a list, parse to nothing, and cannot be read.
ProgressFiles ==
    [readable : {TRUE}, content : {L_kv, L_item, L_blank}]
        \cup {[readable |-> FALSE, content |-> <<>>]}

ProgressDirs ==
    {NoDir} \cup UNION {[names -> ProgressFiles] : names \in SUBSET FileNames}

InitProgress == Init /\ marker_dir \in ProgressDirs

\* The run is one sequential process: while a step is possible, it is taken.
FairSpec == InitProgress /\ [][Next]_vars /\ WF_vars(Next)

\* ------------------------------------ qualify_marker: validate, then score
ManyExamples == 24

K_extra == <<"e", "x", "t", "r", "a">>
K_note == <<"n", "o", "t", "e">>

\* A text of n characters.
Text(n) == [i \in 1..n |-> "a"]

FrameOf(signal, concept, pragmatics, narrative) ==
    PyDict(K_signal :> signal @@ K_concept :> concept @@ K_pragmatics :> pragmatics
           @@ K_narrative :> narrative)

F_good == FrameOf(PyStr(<<"s">>), PyStr(<<"c">>), PyStr(<<"p">>), PyStr(<<"n">>))
F_blank_signal == FrameOf(PyStr(<<" ">>), PyStr(<<"c">>), PyStr(<<"p">>), PyStr(<<"n">>))
F_not_dict == PyStr(<<"f">>)
F_no_narrative ==
    PyDict(K_signal :> PyStr(<<"s">>) @@ K_concept :> PyStr(<<"c">>)
           @@ K_pragmatics :> PyStr(<<"p">>))
F_int_concept == FrameOf(PyStr(<<" ">>), PyInt(3), PyStr(<<"p">>), PyStr(<<"n">>))
F_long ==
    FrameOf(PyStr(Text(FRAME_BONUS_LENGTH)), PyStr(Text(FRAME_BONUS_LENGTH)),
            PyStr(Text(FRAME_BONUS_LENGTH)), PyStr(Text(FRAME_BONUS_LENGTH)))
F_long_note == PyDict(F_long.v @@ K_note :> PyStr(<<"n">>))
F_longer ==
    FrameOf(PyStr(Text(FRAME_BONUS_LENGTH + 1)), PyStr(Text(FRAME_BONUS_LENGTH + 1)),
            PyStr(Text(FRAME_BONUS_LENGTH + 1)), PyStr(Text(FRAME_BONUS_LENGTH + 1)))
F_int_note == PyDict(F_good.v @@ K_note :> PyInt(1))

E_distinct == PyList([i \in 1..Q_MIN_EXAMPLES |-> PyStr(<<"e">> \o IntToStr(i))])
E_same == PyList([i \in 1..Q_MIN_EXAMPLES |-> PyStr(<<"e">>)])
E_few == PyList([i \in 1..(Q_MIN_EXAMPLES - 1) |-> PyStr(<<"e">> \o IntToStr(i))])
E_more == PyList([i \in 1..(Q_MIN_EXAMPLES + 1) |-> PyStr(<<"e">> \o IntToStr(i))])
E_not_list == PyStr(<<"e">>)
E_int_item ==
    PyList(<<PyStr(<<"e">>), PyStr(<<"e">>), PyInt(1), PyStr(<<"e">>), PyStr(<<"e">>)>>)
E_many == PyList([i \in 1..ManyExamples |-> PyStr(<<"e">>)])

M_full ==
    PyDict(K_created :> PyStr(<<"t", "0">>) @@ K_author :> PyStr(S_tool)
           @@ K_version :> PyStr(S_1_0)
           @@ K_tags :> PyList(<<PyStr(S_normalized), PyStr(S_ld311)>>))
M_partial == PyDict(K_author :> PyStr(S_tool))
M_not_dict == PyStr(<<"m">>)
M_tags_not_list == PyDict(K_tags :> PyStr(<<"t">>) @@ M_full.v)
M_same_tags ==
    PyDict(K_tags :> PyList(<<PyStr(S_ld311), PyStr(S_ld311)>>) @@ M_full.v)
M_list_tag == PyDict(K_tags :> PyList(<<PyList(<<>>)>>) @@ M_full.v)

C_good ==
    PyList(<<PyDict(K_type :> PyStr(<<"a">>) @@ K_marker_ids :> PyList(<<>>))>>)
C_no_marker_ids == PyList(<<PyDict(K_type :> PyStr(<<"a">>))>>)

MarkerOf(id, frame, examples, pattern, composed_of, detect_class, metadata, extra) ==
    MkDict(K_id :> id @@ K_frame :> frame @@ K_examples :> examples
           @@ K_pattern :> pattern @@ K_composed_of :> composed_of
           @@ K_detect_class :> detect_class @@ K_metadata :> metadata
           @@ K_extra :> extra)

\* Markers with any of the required fields missing, whatever else they hold.
IncompleteMarkers ==
    {MarkerOf(id, frame, examples, pattern, composed_of, detect_class, metadata, extra) :
        id \in {Absent, PyStr(S_S_X), PyInt(7)},
        frame \in {Absent, F_good, F_not_dict},
        examples \in {Absent, E_distinct, E_not_list},
        pattern \in {Absent, PyStr(<<"p">>), PyInt(1)},
        composed_of \in {Absent, C_no_marker_ids},
        detect_class \in {Absent, PyStr(<<"c">>)},
        metadata \in {Absent, M_not_dict, M_partial},
        extra \in {Absent, PyInt(1)}}

\* Markers with the required fields, good and bad, and every choice of
\* descriptor fields.
DescribedMarkers ==
    {MarkerOf(id, frame, examples, pattern, composed_of, detect_class, metadata, Absent) :
        id \in {PyStr(S_S_X), PyStr(<<" ">>), PyInt(7)},
        frame \in {F_good, F_blank_signal, F_not_dict, F_no_narrative, F_int_concept},
        examples \in {E_distinct, E_same, E_few, E_not_list, E_int_item},
        pattern \in {Absent, PyStr(<<"p">>), PyStr(<<" ">>), PyInt(1)},
        composed_of \in {Absent, C_good, C_no_marker_ids},
        detect_class \in {Absent, PyStr(<<"c">>)},
        metadata \in {Absent, M_not_dict}}

\* Markers that pass the structural checks, with every kind of metadata, of
\* frame text and of example list.
ScoredMarkers ==
    {MarkerOf(PyStr(S_S_X), frame, examples, pattern, Absent, Absent, metadata, extra) :
        frame \in {F_good, F_blank_signal, F_long, F_long_note, F_longer, F_int_note},
        examples \in {E_distinct, E_same, E_more, E_many},
        pattern \in {PyStr(<<"p">>), PyStr(<<" ">>)},
        metadata \in {Absent, PyNone, M_full, M_partial, M_not_dict, M_tags_not_list,
                      M_same_tags, M_list_tag},
        extra \in {Absent, PyInt(1)}}

Markers == IncompleteMarkers \cup DescribedMarkers \cup ScoredMarkers

\* The orders in which the set frame_fields can be iterated.
FrameOrders ==
    {o \in [1..Cardinality(frame_fields) -> frame_fields] :
        \A i, j \in 1..Cardinality(frame_fields) : i # j => o[i] # o[j]}

InitValidate ==
    /\ marker \in Markers
    /\ validated = Idle
    /\ quality = Idle
    /\ ParserIdle
    /\ NormalizerIdle
    /\ PipelineIdle

\* is_valid, errors, warnings = self.validator.validate_marker(marker)
Validate ==
    /\ marker # Idle
    /\ validated = Idle
    /\ \E order \in FrameOrders : validated' = validate_marker(marker, order)
    /\ UNCHANGED <<marker, quality, parserVars, normalizerVars, pipelineVars>>

\* if is_valid: score, rating = self.calculate_quality_score(marker, warnings)
Score ==
    /\ validated.t = "validated"
    /\ validated.is_valid
    /\ quality = Idle
    /\ quality' = calculate_quality_score(marker, validated.warnings)
    /\ UNCHANGED <<marker, validated, parserVars, normalizerVars, pipelineVars>>

NextValidate == Validate \/ Score

SpecValidate == InitValidate /\ [][NextValidate]_vars

\* --------------------------------------------- pass two: qualify_marker_set
K_validation_errors ==
    <<"v", "a", "l", "i", "d", "a", "t", "i", "o", "n", "_", "e", "r", "r", "o", "r", "s">>
S_qualification ==
    <<"q", "u", "a", "l", "i", "f", "i", "c", "a", "t", "i", "o", "n">>

\* The documents the files of final_marker_set hold when pass two starts: a
\* file is kept as the document yaml.safe_load reads from its text, YamlError
\* for a text that is not YAML, None for an empty text.
StoredMarkers ==
    {MarkerOf(PyStr(S_S_X), frame, examples, PyStr(<<"p">>), Absent, Absent, metadata,
              Absent) :
        frame \in {F_good, F_blank_signal, F_no_narrative, F_int_note},
        examples \in {E_distinct, E_same},
        metadata \in {Absent, PyNone}}

StoredDocuments ==
    StoredMarkers \cup {PyNone, PyInt(7), PyList(<<PyStr(<<"x">>)>>), YamlError}

StoredFiles ==
    [readable : {TRUE}, yaml : StoredDocuments]
        \cup {[readable |-> FALSE, yaml |-> PyNone]}

StoredDirs ==
    {NoDir} \cup UNION {[names -> StoredFiles] : names \in SUBSET FileNames}

InitQualify ==
    /\ final_marker_set \in StoredDirs
    /\ pending = IF final_marker_set = NoDir THEN {} ELSE DOMAIN final_marker_set
    /\ quarantine = EmptyMap
    /\ quarantine_errors = EmptyMap
    /\ report_data = <<>>
    /\ summary_log = <<>>
    /\ pc = "qualify"
    /\ marker_dir = Idle
    /\ file_name = Idle
    /\ marker_data = Idle
    /\ normalized = Idle
    /\ renormalized = Idle
    /\ ParserIdle
    /\ QualifierIdle

\* marker_path.unlink()
Unlink(dir, name) == [n \in DOMAIN dir \ {name} |-> dir[n]]

\* The error payload _quarantine_marker writes.
QualificationErrorData(name, errors, now) ==
    PyDict(K_file :> PyStr(name) @@ K_validation_errors :> errors
           @@ K_timestamp :> PyStr(now) @@ K_stage :> PyStr(S_qualification))

\* _quarantine_marker for a file that exists and can be read: the file is
\* copied to quarantine, removed from final_marker_set, and its error payload
\* written.
_quarantine_marker(errors) ==
    /\ quarantine' = MapPut(quarantine, file_name, file.yaml)
    /\ final_marker_set' = Unlink(final_marker_set, file_name)
    /\ \E now \in Clock :
          quarantine_errors' = MapPut(quarantine_errors, PathStem(file_name),
              QualificationErrorData(file_name, errors, now))

\* result['errors'][:2]
FirstTwo(errors) == SubSeq(errors, 1, Min(2, Len(errors)))

\* result['errors'] of the except branch.
ProcessingError(exception) == <<Message("Processing error", exception.v)>>

\* The end of an iteration of the loop of qualify_marker_set.
NextMarker ==
    /\ pending' = pending \ {file_name}
    /\ file' = Idle
    /\ file_name' = Idle
    /\ marker' = Idle
    /\ validated' = Idle
    /\ quality' = Idle
    /\ pc' = "qualify"
    /\ UNCHANGED <<parsed, marker_data, normalized, renormalized, marker_dir, summary_log>>

\* qualify_marker_set returns at once when the directory does not exist or
\* holds no marker file.
NoYamlFiles ==
    /\ pc = "qualify"
    /\ final_marker_set = NoDir \/ (pending = {} /\ report_data = <<>>)
    /\ pc' = "done"
    /\ UNCHANGED <<marker_dir, pending, final_marker_set, quarantine, quarantine_errors,
                   report_data, summary_log, parserVars, normalizerVars,
                   qualifierVars>>

\* The loop takes the next file; qualify_marker opens it and loads it.
LoadMarker(name) ==
    /\ pc = "qualify"
    /\ final_marker_set # NoDir
    /\ name \in pending
    /\ file' = final_marker_set[name]
    /\ file_name' = name
    /\ marker' = IF ~final_marker_set[name].readable THEN Raise("OSError")
                 ELSE IF final_marker_set[name].yaml = YamlError THEN Raise("YAMLError")
                 ELSE final_marker_set[name].yaml
    /\ pc' = "loaded"
    /\ UNCHANGED <<parsed, marker_data, normalized, renormalized, marker_dir, pending,
                   final_marker_set, quarantine, quarantine_errors, report_data,
                   summary_log, validated, quality>>

\* 'if not marker:' the result is FAILED and the file stays where it is.
EmptyMarker ==
    /\ pc = "loaded"
    /\ marker.t # "raise"
    /\ ~Truthy(marker)
    /\ report_data' = Append(report_data,
          ReportEntry(file_name, "FAILED", "VALIDATION_ERROR",
                      <<Message("Empty or invalid YAML file", <<>>)>>))
    /\ NextMarker
    /\ UNCHANGED <<final_marker_set, quarantine, quarantine_errors>>

\* is_valid, errors, warnings = self.validator.validate_marker(marker)
ValidateMarker ==
    /\ pc = "loaded"
    /\ marker.t # "raise"
    /\ Truthy(marker)
    /\ \E order \in FrameOrders : validated' = validate_marker(marker, order)
    /\ pc' = "validated"
    /\ UNCHANGED <<file, parsed, marker, quality, normalizerVars, marker_dir, pending,
                   final_marker_set, quarantine, quarantine_errors, report_data,
                   summary_log>>

\* 'if is_valid:' score, rating = self.calculate_quality_score(marker, warnings)
ScoreMarker ==
    /\ pc = "validated"
    /\ validated.t = "validated"
    /\ validated.is_valid
    /\ quality' = calculate_quality_score(marker, validated.warnings)
    /\ pc' = "scored"
    /\ UNCHANGED <<file, parsed, marker, validated, normalizerVars, marker_dir, pending,
                   final_marker_set, quarantine, quarantine_errors, report_data,
                   summary_log>>

\* The score was computed: the result is QUALIFIED and the file stays.
Qualified ==
    /\ pc = "scored"
    /\ quality.t = "score"
    /\ report_data' = Append(report_data,
          ReportEntry(file_name, "QUALIFIED",
                      IF validated.errors # <<>> THEN "VALIDATION_ERROR" ELSE "",
                      quality))
    /\ NextMarker
    /\ UNCHANGED <<final_marker_set, quarantine, quarantine_errors>>

\* 'else:' the marker is not valid: the result is FAILED and the file is
\* moved to quarantine with the validation errors.
Rejected ==
    /\ pc = "validated"
    /\ validated.t = "validated"
    /\ ~validated.is_valid
    /\ _quarantine_marker(validated.errors)
    /\ report_data' = Append(report_data,
          ReportEntry(file_name, "FAILED",
                      IF validated.errors # <<>> THEN "VALIDATION_ERROR" ELSE "",
                      FirstTwo(validated.errors)))
    /\ NextMarker

\* 'except Exception' for a text yaml.safe_load rejects.
LoadError ==
    /\ pc = "loaded"
    /\ marker.t = "raise"
    /\ file.readable
    /\ _quarantine_marker(<<marker.v>>)
    /\ report_data' = Append(report_data,
          ReportEntry(file_name, "ERROR", "VALIDATION_ERROR", ProcessingError(marker)))
    /\ NextMarker

\* 'except Exception' for a file that cannot be read: _quarantine_marker reads
\* the file again, inside the handler, and the run ends with that exception.
CrashOnUnreadableMarker ==
    /\ pc = "loaded"
    /\ marker.t = "raise"
    /\ ~file.readable
    /\ pending' = pending \ {file_name}
    /\ file' = Idle
    /\ file_name' = Idle
    /\ marker' = Idle
    /\ pc' = "crashed"
    /\ UNCHANGED <<parsed, marker_data, normalized, renormalized, marker_dir, summary_log,
                   validated, quality, final_marker_set, quarantine, quarantine_errors,
                   report_data>>

\* 'except Exception' for an exception of validate_marker.
ValidateError ==
    /\ pc = "validated"
    /\ validated.t = "raise"
    /\ _quarantine_marker(<<validated.v>>)
    /\ report_data' = Append(report_data,
          ReportEntry(file_name, "ERROR", "VALIDATION_ERROR", ProcessingError(validated)))
    /\ NextMarker

\* 'except Exception' for an exception of calculate_quality_score.
ScoreError ==
    /\ pc = "scored"
    /\ quality.t = "raise"
    /\ _quarantine_marker(<<quality.v>>)
    /\ report_data' = Append(report_data,
          ReportEntry(file_name, "ERROR", "VALIDATION_ERROR", ProcessingError(quality)))
    /\ NextMarker

\* After the loop the entries are appended to SUMMARY_LOG.
WriteQualifyReport ==
    /\ pc = "qualify"
    /\ final_marker_set # NoDir
    /\ pending = {}
    /\ report_data # <<>>
    /\ summary_log' = summary_log \o report_data
    /\ pc' = "done"
    /\ UNCHANGED <<marker_dir, pending, final_marker_set, quarantine, quarantine_errors,
                   report_data, parserVars, normalizerVars, qualifierVars>>

NextQualify ==
    \/ NoYamlFiles
    \/ \E name \in pending : LoadMarker(name)
    \/ EmptyMarker
    \/ ValidateMarker
    \/ ScoreMarker
    \/ Qualified
    \/ Rejected
    \/ LoadError
    \/ CrashOnUnreadableMarker
    \/ ValidateError
    \/ ScoreError
    \/ WriteQualifyReport

SpecQualify == InitQualify /\ [][NextQualify]_vars

\* Pass two is one sequential process as well.
FairSpecQualify == SpecQualify /\ WF_vars(NextQualify)

\* ================================================================= claims
\* The four frame fields.
FrameKeys == {K_signal, K_concept, K_pragmatics, K_narrative}

\* The source name with its extension stripped.
Stem(name) ==
    IF Len(name) >= Len(S_yaml) /\ SubSeq(name, Len(name) - Len(S_yaml) + 1, Len(name)) = S_yaml
    THEN SubSeq(name, 1, Len(name) - Len(S_yaml))
    ELSE name

\* C1 (as claimed): normalizing the normalizer's output again, under the same
\* source name, returns a marker with the same id, with every frame field
\* string of the first result, and with at least MIN_EXAMPLES examples.
C1_Idempotent ==
    renormalized # Idle =>
        /\ renormalized.t = "dict"
        /\ renormalized.v[K_id] = normalized.v[K_id]
        /\ \A f \in FrameKeys :
              renormalized.v[K_frame].v[f] = normalized.v[K_frame].v[f]
        /\ Len(renormalized.v[K_examples].v) >= MIN_EXAMPLES

\* C2 (as claimed): the id is the structure's marker_name when that field is
\* present and non-empty, and the source name without its extension otherwise.
C2_IdRule ==
    normalized.t = "dict" =>
        normalized.v[K_id] =
            IF K_marker_name \in DOMAIN marker_data.v /\ Truthy(marker_data.v[K_marker_name])
            THEN marker_data.v[K_marker_name]
            ELSE PyStr(Stem(file_name))

\* What C3 requires of a marker the normalizer returned.
Canonical(m) ==
    /\ {K_id, K_frame, K_examples} \subseteq DOMAIN m.v
    /\ m.v[K_frame].t = "dict"
    /\ DOMAIN m.v[K_frame].v = FrameKeys
    /\ \A f \in FrameKeys :
          m.v[K_frame].v[f].t = "str" /\ Strip(m.v[K_frame].v[f].v) # <<>>
    /\ m.v[K_examples].t = "list"
    /\ \A i \in 1..Len(m.v[K_examples].v) : m.v[K_examples].v[i].t = "str"
    /\ Len(m.v[K_examples].v) >= MIN_EXAMPLES
    /\ Cardinality({K_pattern, K_composed_of, K_detect_class} \cap DOMAIN m.v) = 1

\* C3: whenever normalize_marker returns, its result has id, frame and
\* examples, a frame of exactly the four keys with non-empty strings, at least
\* MIN_EXAMPLES examples that are all strings, and exactly one descriptor.
C3_NormalizerOutput ==
    /\ normalized.t = "dict" => Canonical(normalized)
    /\ renormalized.t = "dict" => Canonical(renormalized)

\* C3 witness: a structure whose example list had unusable and too few
\* entries has been normalized.
C3_Witness ==
    /\ normalized.t = "dict"
    /\ K_beispiele \in DOMAIN marker_data.v
    /\ marker_data.v[K_beispiele].t = "list"
    /\ Len(CleanExamples(marker_data.v[K_beispiele].v)) \in 1..(MIN_EXAMPLES - 1)
    /\ Len(normalized.v[K_examples].v) = MIN_EXAMPLES

\* The strategies in the order the code runs them.
StrategyOrder == <<"direct", "repaired", "salvage">>

\* A document that yaml.safe_load accepts as it is.
ValidAsIs(content) == YamlLoad(content).t # "error"

KeyLine(raw) ==
    /\ Strip(raw) # <<>>
    /\ ~StartsWith(Strip(raw), <<"#">>)
    /\ Contains(raw, <<":">>)
    /\ ~StartsWith(Strip(raw), <<"-">>)

\* C5 (as claimed): when both structural parses fail and the document has a
\* key line, parse returns a non-empty mapping.
C5_SalvageYield ==
    LET lines == Split(file.content, "\n")
    IN  (/\ parsed # Idle
         /\ file.readable
         /\ parsed.tried = StrategyOrder
         /\ \E i \in 1..Len(lines) : KeyLine(lines[i])) =>
            /\ parsed.error = NoError
            /\ parsed.data.t = "dict"
            /\ DOMAIN parsed.data.v # {}


\* The stage tag the claim gives a document whose parse failed.
S_recovery == <<"r", "e", "c", "o", "v", "e", "r", "y">>

\* The files the loop of pass one has finished with.
Processed == IF marker_dir = NoDir THEN {} ELSE DOMAIN marker_dir \ pending

AllFailed ==
    [data |-> PyNone, error |-> Error("All parsing strategies failed"),
     tried |-> StrategyOrder]

\* C6 (as claimed): a readable document whose body is empty or whitespace-only
\* parses to the terminal error with no data, and once pass one is done with it
\* the document is in quarantine with an error payload whose stage is recovery,
\* and it is not in the accepted store.
C6_ScenarioD ==
    \A name \in Processed :
        (marker_dir[name].readable /\ Strip(marker_dir[name].content) = <<>>) =>
            /\ parse_with_recovery(marker_dir[name]) = AllFailed
            /\ name \in DOMAIN quarantine
            /\ name \notin DOMAIN final_marker_set
            /\ PathStem(name) \in DOMAIN quarantine_errors
            /\ K_stage \in DOMAIN quarantine_errors[PathStem(name)].v
            /\ quarantine_errors[PathStem(name)].v[K_stage] = PyStr(S_recovery)

\* The part of C6 the code does satisfy: terminal error, quarantined with the
\* recovery payload process_markers writes, nothing in the accepted store.
C6_QuarantinedWithoutStage ==
    \A name \in Processed :
        (marker_dir[name].readable /\ Strip(marker_dir[name].content) = <<>>) =>
            /\ parse_with_recovery(marker_dir[name]) = AllFailed
            /\ name \in DOMAIN quarantine
            /\ name \notin DOMAIN final_marker_set
            /\ PathStem(name) \in DOMAIN quarantine_errors
            /\ K_stage \notin DOMAIN quarantine_errors[PathStem(name)].v
            /\ quarantine_errors[PathStem(name)].v[K_recovery_attempted] = PyBool(TRUE)


\* ---------------------------------------------------------------- validator
RequiredNames == {K_id, K_frame, K_examples}

DescriptorNames == <<K_pattern, K_composed_of, K_detect_class>>

RecommendedNames == {K_created, K_author, K_version, K_tags}

\* The marker has a frame that is a mapping with the four frame fields, all
\* strings.
FrameOk(m) ==
    /\ K_frame \in DOMAIN m
    /\ m[K_frame].t = "dict"
    /\ FrameKeys \subseteq DOMAIN m[K_frame].v
    /\ \A k \in FrameKeys : m[K_frame].v[k].t = "str"

\* The marker has a list of at least the minimum number of examples, all
\* strings.
ExamplesOk(m) ==
    /\ K_examples \in DOMAIN m
    /\ m[K_examples].t = "list"
    /\ Len(m[K_examples].v) >= 5
    /\ \A i \in 1..Len(m[K_examples].v) : m[K_examples].v[i].t = "str"

IdOk(m) == K_id \in DOMAIN m /\ m[K_id].t = "str" /\ Strip(m[K_id].v) # <<>>

\* The descriptor fields the marker has, in the order pattern, composed_of,
\* detect_class.
Descriptors(m) ==
    LET Has(f) == f \in DOMAIN m
    IN  SelectSeq(DescriptorNames, Has)

XorErrors(errors) ==
    {i \in 1..Len(errors) : errors[i].msg = "XOR constraint violated"}

\* C7: a marker that lacks any of _id, frame, examples is invalid with the one
\* error that names exactly the fields it lacks, and with no warning, whatever
\* its other fields are.
C7_RequiredShortCircuit ==
    (validated # Idle /\ RequiredNames \ DOMAIN marker.v # {}) =>
        /\ validated.t = "validated"
        /\ ~validated.is_valid
        /\ validated.errors =
              <<Message("Missing required fields", RequiredNames \ DOMAIN marker.v)>>
        /\ validated.warnings = <<>>

\* A marker without any required field, with a pattern that is no string, a
\* metadata that is no mapping and an unknown field, has been validated.
C7_Witness ==
    /\ validated # Idle
    /\ RequiredNames \cap DOMAIN marker.v = {}
    /\ {K_pattern, K_metadata, K_extra} \subseteq DOMAIN marker.v
    /\ marker.v[K_pattern].t = "int"
    /\ marker.v[K_metadata].t = "str"
    /\ Len(validated.errors) = 1
    /\ validated.errors[1].with = RequiredNames

\* C8: for a marker that passes the required-field, frame and examples checks,
\* zero, two or three descriptor fields make the marker invalid with one XOR
\* error that lists exactly the descriptor fields found, and exactly one
\* descriptor field raises no XOR error.
C8_XorRule ==
    (validated # Idle /\ RequiredNames \subseteq DOMAIN marker.v
       /\ FrameOk(marker.v) /\ ExamplesOk(marker.v)) =>
        IF Len(Descriptors(marker.v)) # 1
        THEN /\ validated.t = "validated"
             /\ ~validated.is_valid
             /\ Cardinality(XorErrors(validated.errors)) = 1
             /\ validated.errors[Len(validated.errors)] =
                   Message("XOR constraint violated", Descriptors(marker.v))
        ELSE validated.t = "validated" => XorErrors(validated.errors) = {}

\* Scenario C: a marker with pattern and composed_of has been validated and
\* the XOR error names both.
C8_Witness ==
    /\ validated # Idle
    /\ RequiredNames \subseteq DOMAIN marker.v
    /\ FrameOk(marker.v)
    /\ ExamplesOk(marker.v)
    /\ Descriptors(marker.v) = <<K_pattern, K_composed_of>>
    /\ ~validated.is_valid
    /\ validated.errors[Len(validated.errors)].with = <<K_pattern, K_composed_of>>

\* The messages of the hard errors of the metadata group.
MetadataErrors == {"Metadata must be a dictionary", "Metadata 'tags' must be a list"}

\* C9 (as claimed): the marker is valid exactly when no hard error of the
\* groups 1 to 7 was raised, the findings of the metadata group changing
\* nothing.
C9_ValidIffNoErrorInGroups1To7 ==
    validated.t = "validated" =>
        (validated.is_valid <=>
            \A i \in 1..Len(validated.errors) : validated.errors[i].msg \in MetadataErrors)

ComposedOfOk(m) ==
    K_composed_of \in DOMAIN m =>
        /\ m[K_composed_of].t = "list"
        /\ \A i \in 1..Len(m[K_composed_of].v) :
              /\ m[K_composed_of].v[i].t = "dict"
              /\ {K_type, K_marker_ids} \subseteq DOMAIN m[K_composed_of].v[i].v

\* A metadata that is neither None nor a mapping, or whose tags are no list.
MetadataHardError(m) ==
    /\ K_metadata \in DOMAIN m
    /\ m[K_metadata].t # "none"
    /\ \/ m[K_metadata].t # "dict"
       \/ K_tags \in DOMAIN m[K_metadata].v /\ m[K_metadata].v[K_tags].t # "list"

\* A condition of the groups 1 to 7 that is a hard error.
StructuralHardError(m) ==
    \/ RequiredNames \ DOMAIN m # {}
    \/ ~IdOk(m)
    \/ ~FrameOk(m)
    \/ ~ExamplesOk(m)
    \/ Len(Descriptors(m)) # 1
    \/ K_pattern \in DOMAIN m /\ m[K_pattern].t # "str"
    \/ ~ComposedOfOk(m)

\* C9 (amended): whenever validate_marker returns, the marker is valid exactly
\* when it has no hard error of the groups 1 to 7 and no hard error of the
\* metadata group; a bad _id is reported first and the later checks still run;
\* unknown fields only add the last warning.
C9_ValidIffNoHardError ==
    validated.t = "validated" =>
        /\ validated.is_valid <=>
              (~StructuralHardError(marker.v) /\ ~MetadataHardError(marker.v))
        /\ validated.is_valid <=> validated.errors = <<>>
        /\ (RequiredNames \subseteq DOMAIN marker.v /\ ~IdOk(marker.v)) =>
              /\ validated.errors[1] = Message("_id must be a non-empty string", <<>>)
              /\ (FrameOk(marker.v) /\ ExamplesOk(marker.v)
                    /\ Len(Descriptors(marker.v)) # 1) =>
                       Cardinality(XorErrors(validated.errors)) = 1
        /\ (~StructuralHardError(marker.v) /\ K_extra \in DOMAIN marker.v) =>
              validated.warnings[Len(validated.warnings)] =
                  Message("Unknown fields will be preserved", {K_extra})

\* A marker whose only fault is a metadata that is no mapping has been
\* validated and is invalid.
C9_Witness ==
    /\ validated.t = "validated"
    /\ ~StructuralHardError(marker.v)
    /\ MetadataHardError(marker.v)
    /\ marker.v[K_metadata].t = "str"
    /\ ~validated.is_valid
    /\ validated.errors = <<Message("Metadata must be a dictionary", "str")>>

\* ---------------------------------------------------------------- qualifier
\* The total length of the four frame fields.
RECURSIVE FourFieldLength(_, _)
FourFieldLength(frame, keys) ==
    IF keys = {} THEN 0
    ELSE LET k == CHOOSE q \in keys : TRUE
         IN  Len(frame[k].v) + FourFieldLength(frame, keys \ {k})

Clamp(x) == IF x < 0 THEN 0 ELSE IF x > 100 THEN 100 ELSE x

ThresholdMap(score) ==
    CASE score >= 90 -> "Excellent"
      [] score >= 80 /\ score < 90 -> "Good"
      [] score >= 70 /\ score < 80 -> "Acceptable"
      [] score >= 60 /\ score < 70 -> "Needs Improvement"
      [] OTHER -> "Poor"

\* The score of the claim: 100, less 5 a warning, plus the three bonuses, the
\* frame bonus being for an average length of the four frame fields above 50.
ClaimedScore(m, warnings) ==
    100 - 5 * Len(warnings)
    + (IF K_metadata \in DOMAIN m /\ m[K_metadata].t = "dict"
          /\ RecommendedNames \subseteq DOMAIN m[K_metadata].v THEN 10 ELSE 0)
    + (IF Len(m[K_examples].v) > 5 THEN 5 ELSE 0)
    + (IF FourFieldLength(m[K_frame].v, FrameKeys) > 4 * 50 THEN 5 ELSE 0)

\* C10 (as claimed): the score of a valid marker is the claimed score clamped
\* to 0..100, and its rating is the threshold map of the clamped score.
C10_Score ==
    quality.t = "score" =>
        /\ quality.score = Clamp(ClaimedScore(marker.v, validated.warnings))
        /\ quality.score \in 0..100
        /\ quality.rating = ThresholdMap(quality.score)

\* What does hold of C10: the claimed score and rating for every marker whose
\* frame has the four frame fields and no other key.
C10_ScoreOfFourFieldFrames ==
    (quality.t = "score" /\ DOMAIN marker.v[K_frame].v = FrameKeys) =>
        /\ quality.score = Clamp(ClaimedScore(marker.v, validated.warnings))
        /\ quality.rating = ThresholdMap(quality.score)


\* ------------------------------------------------------------ parser result
\* C16 (as claimed): parse_with_recovery returns either a non-empty mapping
\* and no error, or no data and an error message; never a scalar or a list.
C16_ResultShape ==
    parsed # Idle =>
        \/ /\ parsed.data.t = "dict"
           /\ DOMAIN parsed.data.v # {}
           /\ parsed.error = NoError
        \/ /\ parsed.data = PyNone
           /\ parsed.error.t = "msg"

\* What does hold of C16: the result is either a truthy value of any type and
\* no error, or no data and an error message.
C16_TruthyOrError ==
    parsed # Idle =>
        \/ Truthy(parsed.data) /\ parsed.error = NoError
        \/ parsed.data = PyNone /\ parsed.error.t = "msg"

\* ------------------------------------------------------ category inference
\* The category of the claim: the first matching rule, on the identifier and
\* the description.
ClaimedCategory(id, description) ==
    IF StartsWith(id, S_A_LOC) \/ StartsWith(id, S_A_PER) \/ StartsWith(id, S_A_ORG)
    THEN "ENTITY"
    ELSE IF Contains(id, S_ATTACHMENT) \/ Contains(ToLower(description), S_attachment)
    THEN "ATTACHMENT"
    ELSE IF Contains(id, S_EMO_) \/ Contains(ToLower(description), S_emotion)
    THEN "EMOTION"
    ELSE IF StartsWith(id, S_MM_) THEN "META"
    ELSE "CONVERSATION"

\* The frame of the claim: the template of the category, its signal followed
\* by "for <identifier>" when the identifier is not empty.
ClaimedFrame(id, description) ==
    LET template == frame_templates[ClaimedCategory(id, description)]
    IN  IF id = <<>> THEN template
        ELSE [template EXCEPT ![K_signal] = PyStr(@.v \o S_for \o id)]

\* C15 (as claimed): the frame of a normalized marker is the frame of the
\* category inferred from the id the marker stores and from the description,
\* with the signal specialized by that id.
C15_CategoryOfId ==
    normalized.t = "dict" =>
        normalized.v[K_frame].v =
            ClaimedFrame(normalized.v[K_id].v,
                         StrOf(Get(marker_data.v, K_beschreibung, PyStr(<<>>))))

\* What does hold of C15: the same, for every structure that has its own
\* marker_name.
C15_CategoryOfMarkerName ==
    (normalized.t = "dict" /\ K_marker_name \in DOMAIN marker_data.v) =>
        normalized.v[K_frame].v =
            ClaimedFrame(normalized.v[K_id].v,
                         StrOf(Get(marker_data.v, K_beschreibung, PyStr(<<>>))))


\* --------------------------------------------------------------- pass two
\* The entry the running iteration appended to the report.
Reported == report_data'[Len(report_data')]

\* validate_marker reported the marker valid and qualify_marker returns.
ValidMarkerReturns ==
    /\ validated # Idle
    /\ validated.t = "validated"
    /\ validated.is_valid
    /\ Len(report_data') = Len(report_data) + 1

\* The file of the running iteration is left in the accepted location and
\* nothing is written to quarantine.
StaysAccepted ==
    /\ file_name \in DOMAIN final_marker_set'
    /\ final_marker_set' = final_marker_set
    /\ quarantine' = quarantine
    /\ quarantine_errors' = quarantine_errors

\* The file of the running iteration is moved to quarantine with a payload.
MovedToQuarantine ==
    /\ file_name \notin DOMAIN final_marker_set'
    /\ file_name \in DOMAIN quarantine'
    /\ PathStem(file_name) \in DOMAIN quarantine_errors'

Scorable(m) ==
    /\ K_metadata \in DOMAIN m.v => m.v[K_metadata].t # "none"
    /\ \A f \in DOMAIN m.v[K_frame].v : m.v[K_frame].v[f].t = "str"

C12_AcceptedIffQualified ==
    (final_marker_set # Idle /\ final_marker_set # NoDir) =>
        \A i \in 1..Len(report_data) :
            /\ report_data[i].file \in DOMAIN final_marker_set
                  <=> report_data[i].status = "QUALIFIED"
            /\ report_data[i].status # "QUALIFIED" =>
                  /\ report_data[i].file \in DOMAIN quarantine
                  /\ PathStem(report_data[i].file) \in DOMAIN quarantine_errors

\* What does hold of C12: the same for every result but the FAILED of a file
\* that loads to an empty document, which is left where it is.
C12_AcceptedIffQualifiedOrEmpty ==
    (final_marker_set # Idle /\ final_marker_set # NoDir) =>
        \A i \in 1..Len(report_data) :
            LET entry == report_data[i]
                empty == entry.details = <<Message("Empty or invalid YAML file", <<>>)>>
            IN  /\ entry.file \in DOMAIN final_marker_set
                      <=> (entry.status = "QUALIFIED" \/ empty)
                /\ (entry.status # "QUALIFIED" /\ ~empty) =>
                      /\ entry.file \in DOMAIN quarantine
                      /\ PathStem(entry.file) \in DOMAIN quarantine_errors


\* ------------------------------------------------------- quarantine content
\* The keys C14 requires of an error payload: the document name, the error
\* message or the validation errors, a timestamp and the stage.
PayloadComplete(payload) ==
    /\ payload.t = "dict"
    /\ K_file \in DOMAIN payload.v
    /\ K_error \in DOMAIN payload.v \/ K_validation_errors \in DOMAIN payload.v
    /\ K_timestamp \in DOMAIN payload.v
    /\ K_stage \in DOMAIN payload.v

\* C14 (as claimed), pass one: every document the report has as QUARANTINED
\* has its raw body in quarantine and a payload with name, error, timestamp
\* and stage.
C14_QuarantineContent ==
    (marker_dir # Idle /\ marker_dir # NoDir) =>
        \A i \in 1..Len(report_data) :
            report_data[i].status = "QUARANTINED" =>
                LET name == report_data[i].file
                IN  /\ name \in DOMAIN quarantine
                    /\ quarantine[name] = marker_dir[name].content
                    /\ PathStem(name) \in DOMAIN quarantine_errors
                    /\ PayloadComplete(quarantine_errors[PathStem(name)])

\* What does hold of C14 in pass one: the raw body and a payload with name,
\* error and timestamp; the stage only for a normalization failure.
C14_QuarantineContentLessStage ==
    (marker_dir # Idle /\ marker_dir # NoDir) =>
        \A i \in 1..Len(report_data) :
            report_data[i].status = "QUARANTINED" =>
                LET name == report_data[i].file
                    payload == quarantine_errors[PathStem(name)]
                IN  /\ name \in DOMAIN quarantine
                    /\ quarantine[name] = marker_dir[name].content
                    /\ {K_file, K_error, K_timestamp} \subseteq DOMAIN payload.v
                    /\ K_stage \in DOMAIN payload.v
                          <=> report_data[i].error = "NORMALIZATION_ERROR"


\* ------------------------------------------------------------ batch progress
\* The report holds exactly one entry for each of the given names.
OneEntryEach(names) ==
    \A name \in names :
        Cardinality({i \in 1..Len(report_data) : report_data[i].file = name}) = 1

\* Pass one has visited every file of MARKER_DIR and written its report.
PassOneComplete ==
    /\ pc = "done"
    /\ pending = {}
    /\ marker_dir # NoDir => OneEntryEach(DOMAIN marker_dir)
    /\ summary_log = report_data

\* C13 (as claimed), pass one: whatever the files of MARKER_DIR, the loop
\* eventually has processed every one of them and the report holds exactly one
\* entry for each.
C13_BatchProgress == <>PassOneComplete

\* What does hold of C13 in pass one: the same when every file can be read.
C13_BatchProgressOfReadable ==
    (marker_dir # NoDir => \A name \in DOMAIN marker_dir : marker_dir[name].readable)
        => <>PassOneComplete

\* Pass two has visited every file of final_marker_set it was given.
PassTwoComplete ==
    /\ pc = "done"
    /\ pending = {}
    /\ summary_log = report_data
    /\ final_marker_set # NoDir =>
          OneEntryEach(DOMAIN final_marker_set \cup DOMAIN quarantine)

\* What does hold of C13 in pass two: the same when every file can be read.
C13_QualifyProgressOfReadable ==
    (final_marker_set # NoDir =>
        \A name \in DOMAIN final_marker_set : final_marker_set[name].readable)
        => <>PassTwoComplete

====
